---- MODULE Spec2Model ----
(***************************************************************************)
(* A model of the tile-sliding arcade game: the tile grid (tilemap.py),    *)
(* the player (objects.py) and the frame-driven game state machine         *)
(* (game.py, main.py).                                                     *)
(*                                                                         *)
(* Units.  main.py computes dt = clock.tick(FPS) / 1000.0 from an integer  *)
(* number of milliseconds.  The model keeps every time (dt, death timer,   *)
(* move cooldown) as that integer number of milliseconds and every pixel   *)
(* coordinate in 1/MS of a pixel, so that speed * dt = PLAYER_SPEED * ms   *)
(* is an exact integer.  The arithmetic is exact where the program uses    *)
(* IEEE doubles.                                                           *)
(***************************************************************************)
EXTENDS Integers, Sequences, FiniteSets, TLC

\* ------------------------------------------------------------ settings.py
WINDOW_WIDTH == 800
WINDOW_HEIGHT == 600
TILE_SIZE == 32
\* GAME_SCALE = 0.62, in hundredths
GAME_SCALE_PCT == 62
UI_HEIGHT == 80
CAMERA_SMOOTHNESS == 20
PLAYER_SPEED == 1100
MAX_LIVES == 1
LEVELS == <<"level1", "level2", "level3">>
\* main.py: milliseconds per second, dt = clock.tick(FPS) / 1000.0
MS == 1000
\* objects.py: the bump cooldown, 0.2 s, in milliseconds
BUMP_COOLDOWN == 200

\* ------------------------------------------------------------ bounds
\* duration (ms) of a frame of the game: clock.tick(FPS) returns the time
\* since the last frame, at least 1000 / FPS and more when a frame is late.
\* At 50 ms the camera's step CAMERA_SMOOTHNESS * dt is the whole distance to
\* its target.
DTs == {50}
\* short, even and late frames (ms), for the camera on its own
CameraDTs == {20, 50, 100}
\* the dt (ms) a caller may pass to Player.update
SlowDTs == {100, 200}
\* longest side of the grids of the exhaustive grid universe
MaxLen == 3
\* most events in one frame's batch
MaxEvents == 2
\* cap of the coin counter (the program's counter is unbounded)
MaxCoins == 1
\* death durations (ms) a caller may pass to Player.kill
DeathDurations == {0, 100}
\* lives a test driver may give the game through the lives setter
MaxTestLives == 2
\* how far below zero the lives counter is followed (the program's counter
\* has no lower bound)
MaxDebt == 0

\* ------------------------------------------------------------ helpers
Abs(v) == IF v < 0 THEN -v ELSE v
Sign(v) == IF v < 0 THEN -1 ELSE IF v > 0 THEN 1 ELSE 0
MaxOf(S) == CHOOSE m \in S : \A n \in S : n <= m
MinOf(S) == CHOOSE m \in S : \A n \in S : m <= n
\* python's int(): truncation toward zero of a coordinate held in 1/MS pixel
Trunc(v) == IF v >= 0 THEN v \div MS ELSE -((-v) \div MS)
\* a pixel count in model units
PX(p) == p * MS
\* python's seq[i], negative indices counting from the end; "IndexError" when
\* i is out of range
PyIndexOk(seq, i) == -Len(seq) <= i /\ i < Len(seq)
PyIndex(seq, i) == IF i >= 0 THEN seq[i + 1] ELSE seq[Len(seq) + i + 1]

\* ------------------------------------------------------------ utils.py
\* load_level: the lines of the level file, blank lines dropped; [] when the
\* file is missing.  A file is [exists, lines]: lines is a sequence of lines,
\* a line a sequence of one-character strings.
IsBlankLine(line) == \A j \in 1..Len(line) : line[j] = " "
load_level(fs, level_name) ==
    IF ~fs[level_name].exists THEN <<>>
    ELSE SelectSeq(fs[level_name].lines, LAMBDA line : ~IsBlankLine(line))

\* load_game_data: the stored progress, or the defaults when there is no file.
\* A save file is [exists, data].
default_data ==
    [level_index |-> 0, coins |-> 0, bought_items |-> <<"travel_boy">>,
     current_skin |-> "travel_boy", level_stars |-> [n \in {} |-> 0]]
load_game_data(sf) == IF sf.exists THEN sf.data ELSE default_data

\* ------------------------------------------------------------ tilemap.py
solid_tiles_traps == {"#", "T"}

solid_tiles == {"#"}

\* TileMap.__init__: width and height of the grid, rows padded with " "
TileMap(fs, level_name) ==
    LET rows == load_level(fs, level_name) IN
    IF rows = <<>>
    THEN [level_name |-> level_name, level_data |-> <<>>, width |-> 0, height |-> 0]
    ELSE LET w == MaxOf({Len(rows[i]) : i \in 1..Len(rows)}) IN
         [level_name |-> level_name,
          level_data |-> [i \in 1..Len(rows) |->
                            [j \in 1..w |-> IF j <= Len(rows[i]) THEN rows[i][j] ELSE " "]],
          width |-> w,
          height |-> Len(rows)]

get_tile(tm, x, y) ==
    IF 0 <= y /\ y < tm.height /\ 0 <= x /\ x < tm.width
    THEN tm.level_data[y + 1][x + 1]
    ELSE " "

is_solid_nobounds(tm, x, y) == get_tile(tm, x, y) \in solid_tiles

is_solid(tm, x, y) ==
    IF x < 0 \/ y < 0 \/ x >= tm.width \/ y >= tm.height
    THEN TRUE
    ELSE get_tile(tm, x, y) \in solid_tiles

\* the cells holding character ch, in row-major order (top row first)
CellAt(tm, k) == <<(k - 1) % tm.width, (k - 1) \div tm.width>>
Scan(tm, ch) ==
    IF tm.width = 0 THEN <<>>
    ELSE SelectSeq([k \in 1..(tm.width * tm.height) |-> CellAt(tm, k)],
                   LAMBDA c : tm.level_data[c[2] + 1][c[1] + 1] = ch)

find_player_spawn_last(tm) ==
    LET ps == Scan(tm, "P") IN IF ps = <<>> THEN <<1, 1>> ELSE ps[Len(ps)]

find_player_spawn(tm) ==
    LET ps == Scan(tm, "P") IN IF ps = <<>> THEN <<1, 1>> ELSE ps[1]

\* ------------------------------------------------------------ objects.py
\* pygame.Rect as [x, y, w, h] in whole pixels; Rect() truncates floats
Rect(x, y, w, h) == [x |-> x, y |-> y, w |-> w, h |-> h]
colliderect(a, b) ==
    /\ a.x < b.x + b.w
    /\ a.y < b.y + b.h
    /\ a.x + a.w > b.x
    /\ a.y + a.h > b.y

\* Player.__init__
PlayerInit_moving(spawn_tile_x, spawn_tile_y) ==
    [spawn_tile_x |-> spawn_tile_x, spawn_tile_y |-> spawn_tile_y,
     x |-> PX(spawn_tile_x * TILE_SIZE), y |-> PX(spawn_tile_y * TILE_SIZE),
     moving |-> TRUE, dir_x |-> 0, dir_y |-> 0,
     target_x |-> PX(spawn_tile_x * TILE_SIZE), target_y |-> PX(spawn_tile_y * TILE_SIZE),
     alive |-> TRUE, death_timer |-> 0, move_cooldown |-> 0]

PlayerInit(spawn_tile_x, spawn_tile_y) ==
    [spawn_tile_x |-> spawn_tile_x, spawn_tile_y |-> spawn_tile_y,
     x |-> PX(spawn_tile_x * TILE_SIZE), y |-> PX(spawn_tile_y * TILE_SIZE),
     moving |-> FALSE, dir_x |-> 0, dir_y |-> 0,
     target_x |-> PX(spawn_tile_x * TILE_SIZE), target_y |-> PX(spawn_tile_y * TILE_SIZE),
     alive |-> TRUE, death_timer |-> 0, move_cooldown |-> 0]

\* Player.rect
player_rect(p) == Rect(Trunc(p.x), Trunc(p.y), TILE_SIZE, TILE_SIZE)

\* Player.get_tile_pos
get_tile_pos(p) ==
    << (p.x + PX(TILE_SIZE \div 2)) \div PX(TILE_SIZE),
       (p.y + PX(TILE_SIZE \div 2)) \div PX(TILE_SIZE) >>

ray_cast_one(tm, last_free_x, last_free_y, dx, dy) ==
    IF is_solid(tm, last_free_x + dx, last_free_y + dy)
    THEN <<last_free_x, last_free_y>>
    ELSE <<last_free_x + dx, last_free_y + dy>>

\* the look-ahead loop of Player.start_move: the last free tile before a wall
RECURSIVE ray_cast_to_edge(_, _, _, _, _)
ray_cast_to_edge(tm, last_free_x, last_free_y, dx, dy) ==
    IF ~(0 <= last_free_x + dx /\ last_free_x + dx < tm.width
         /\ 0 <= last_free_y + dy /\ last_free_y + dy < tm.height)
    THEN <<last_free_x, last_free_y>>
    ELSE ray_cast_to_edge(tm, last_free_x + dx, last_free_y + dy, dx, dy)

RECURSIVE ray_cast_open_border(_, _, _, _, _)
ray_cast_open_border(tm, last_free_x, last_free_y, dx, dy) ==
    LET next_x == last_free_x + dx
        next_y == last_free_y + dy
        inside == 0 <= next_x /\ next_x < tm.width /\ 0 <= next_y /\ next_y < tm.height
        far == next_x < -1 \/ next_x > tm.width \/ next_y < -1 \/ next_y > tm.height
    IN IF far \/ (inside /\ is_solid(tm, next_x, next_y))
       THEN <<last_free_x, last_free_y>>
       ELSE ray_cast_open_border(tm, next_x, next_y, dx, dy)

RECURSIVE ray_cast(_, _, _, _, _)
ray_cast(tm, last_free_x, last_free_y, dx, dy) ==
    IF is_solid(tm, last_free_x + dx, last_free_y + dy)
    THEN <<last_free_x, last_free_y>>
    ELSE ray_cast(tm, last_free_x + dx, last_free_y + dy, dx, dy)

\* Player.kill
kill_keep_moving(p, death_duration) ==
    [p EXCEPT !.alive = FALSE, !.death_timer = death_duration]

kill(p, death_duration) ==
    [p EXCEPT !.alive = FALSE, !.death_timer = death_duration, !.moving = FALSE]

\* Player.reset_to_start
reset_to_start(p) ==
    [p EXCEPT !.x = PX(p.spawn_tile_x * TILE_SIZE),
              !.y = PX(p.spawn_tile_y * TILE_SIZE),
              !.target_x = PX(p.spawn_tile_x * TILE_SIZE),
              !.target_y = PX(p.spawn_tile_y * TILE_SIZE),
              !.moving = FALSE, !.alive = TRUE, !.death_timer = 0]

\* Player.update.  start_move sets the target in the row or the column of the
\* player, so one of vec_x, vec_y is 0: the euclidean distance to the target
\* is |vec_x| + |vec_y| and vec / dist is the sign of the other component.
player_update_nosnap(p, dt) ==
    LET p1 == IF p.move_cooldown > 0
              THEN [p EXCEPT !.move_cooldown = p.move_cooldown - dt] ELSE p
        vec_x == p.target_x - p.x
        vec_y == p.target_y - p.y
        dist == Abs(vec_x) + Abs(vec_y)
        step == PLAYER_SPEED * dt
    IN
    IF ~p1.alive
    THEN IF p1.death_timer > 0
         THEN [p1 EXCEPT !.death_timer = p1.death_timer - dt] ELSE p1
    ELSE IF ~p1.moving THEN p1
    ELSE IF dist <= step
    THEN [p1 EXCEPT !.x = p.x + Sign(vec_x) * step, !.y = p.y + Sign(vec_y) * step,
                    !.moving = FALSE]
    ELSE [p1 EXCEPT !.x = p.x + Sign(vec_x) * step, !.y = p.y + Sign(vec_y) * step]

player_update_past_target(p, dt) ==
    LET p1 == IF p.move_cooldown > 0
              THEN [p EXCEPT !.move_cooldown = p.move_cooldown - dt] ELSE p
        vec_x == p.target_x - p.x
        vec_y == p.target_y - p.y
        dist == Abs(vec_x) + Abs(vec_y)
        step == PLAYER_SPEED * dt
    IN
    IF ~p1.alive
    THEN IF p1.death_timer > 0
         THEN [p1 EXCEPT !.death_timer = p1.death_timer - dt] ELSE p1
    ELSE IF ~p1.moving THEN p1
    ELSE IF dist <= 0
    THEN [p1 EXCEPT !.x = p.target_x, !.y = p.target_y, !.moving = FALSE]
    ELSE [p1 EXCEPT !.x = p.x + Sign(vec_x) * step, !.y = p.y + Sign(vec_y) * step]

player_update_halfway(p, dt) ==
    LET p1 == IF p.move_cooldown > 0
              THEN [p EXCEPT !.move_cooldown = p.move_cooldown - dt] ELSE p
        vec_x == p.target_x - p.x
        vec_y == p.target_y - p.y
        dist == Abs(vec_x) + Abs(vec_y)
        step == PLAYER_SPEED * dt
    IN
    IF ~p1.alive
    THEN IF p1.death_timer > 0
         THEN [p1 EXCEPT !.death_timer = p1.death_timer - dt] ELSE p1
    ELSE IF ~p1.moving THEN p1
    ELSE IF dist <= step
    THEN [p1 EXCEPT !.x = p.x + vec_x \div 2, !.y = p.y + vec_y \div 2]
    ELSE [p1 EXCEPT !.x = p.x + Sign(vec_x) * step, !.y = p.y + Sign(vec_y) * step]

player_update(p, dt) ==
    LET p1 == IF p.move_cooldown > 0
              THEN [p EXCEPT !.move_cooldown = p.move_cooldown - dt] ELSE p
        vec_x == p.target_x - p.x
        vec_y == p.target_y - p.y
        dist == Abs(vec_x) + Abs(vec_y)
        step == PLAYER_SPEED * dt
    IN
    IF ~p1.alive
    THEN IF p1.death_timer > 0
         THEN [p1 EXCEPT !.death_timer = p1.death_timer - dt] ELSE p1
    ELSE IF ~p1.moving THEN p1
    ELSE IF dist <= step
    THEN [p1 EXCEPT !.x = p.target_x, !.y = p.target_y, !.moving = FALSE]
    ELSE [p1 EXCEPT !.x = p.x + Sign(vec_x) * step, !.y = p.y + Sign(vec_y) * step]

\* entity hitboxes: SpikeTrap.__init__, Star.rect, Dot.rect, Exit.__init__
trap_size == (TILE_SIZE * 35) \div 100
trap_padding == (TILE_SIZE - trap_size) \div 2
trap_rect(t) == Rect(t[1] * TILE_SIZE + trap_padding, t[2] * TILE_SIZE + trap_padding,
                     TILE_SIZE - trap_padding * 2, TILE_SIZE - trap_padding * 2)
star_size == (TILE_SIZE * 7) \div 10
star_rect(s) == Rect(s.tile_x * TILE_SIZE + (TILE_SIZE - star_size) \div 2,
                     s.tile_y * TILE_SIZE + (TILE_SIZE - star_size) \div 2,
                     star_size, star_size)
dot_size == TILE_SIZE \div 6
dot_rect(d) == Rect(d[1] * TILE_SIZE + (TILE_SIZE - dot_size) \div 2,
                    d[2] * TILE_SIZE + (TILE_SIZE - dot_size) \div 2,
                    dot_size, dot_size)
exit_padding == 4
exit_rect(e) == Rect(e[1] * TILE_SIZE + exit_padding, e[2] * TILE_SIZE + exit_padding,
                     TILE_SIZE - exit_padding * 2, TILE_SIZE - exit_padding * 2)

\* ------------------------------------------------------------ game.py
\* Game.__init__, Game.setup_level: the virtual resolution
virt_w == (WINDOW_WIDTH * 100) \div GAME_SCALE_PCT
virt_h == (WINDOW_HEIGHT * 100) \div GAME_SCALE_PCT
\* the camera scroll is held in 1/GAME_SCALE_PCT pixel, in which
\* ui_offset = UI_HEIGHT / GAME_SCALE is the integer UI_HEIGHT * 100
SX(p) == p * GAME_SCALE_PCT
ui_offset == UI_HEIGHT * 100
Clamp(lo, v, hi) == MaxOf({lo, MinOf({v, hi})})
\* the camera target: the player's rect centre less half the view
camera_target(p) ==
    << player_rect(p).x + TILE_SIZE \div 2 - virt_w \div 2,
       player_rect(p).y + TILE_SIZE \div 2 - virt_h \div 2 >>
\* Game.setup_level: the starting scroll, clamped on an axis where the level
\* is larger than the view and centred otherwise
setup_scroll(tm, p) ==
    LET level_w == tm.width * TILE_SIZE
        level_h == tm.height * TILE_SIZE
        t == camera_target(p)
    IN << IF level_w > virt_w THEN SX(Clamp(0, t[1], level_w - virt_w))
          ELSE SX((level_w - virt_w) \div 2),
          IF level_h > virt_h
          THEN Clamp(0, SX(t[2]), SX(level_h - virt_h) + ui_offset)
          ELSE SX((level_h - virt_h) \div 2) >>
\* the camera follow of Game.update_playing: a step towards the target,
\* clamped only on an axis where the level is larger than the view
camera_follow_noclamp(g, dt) ==
    LET t == camera_target(g.player)
        sx == g.scroll[1] + ((SX(t[1]) - g.scroll[1]) * CAMERA_SMOOTHNESS * dt) \div MS
        sy == g.scroll[2] + ((SX(t[2]) - g.scroll[2]) * CAMERA_SMOOTHNESS * dt) \div MS
    IN [g EXCEPT !.scroll = <<sx, sy>>]

camera_follow(g, dt) ==
    LET t == camera_target(g.player)
        level_w == g.tilemap.width * TILE_SIZE
        level_h == g.tilemap.height * TILE_SIZE
        sx == g.scroll[1] + ((SX(t[1]) - g.scroll[1]) * CAMERA_SMOOTHNESS * dt) \div MS
        sy == g.scroll[2] + ((SX(t[2]) - g.scroll[2]) * CAMERA_SMOOTHNESS * dt) \div MS
    IN [g EXCEPT !.scroll =
          << IF level_w > virt_w THEN Clamp(0, sx, SX(level_w - virt_w)) ELSE sx,
             IF level_h > virt_h
             THEN Clamp(0, sy, SX(level_h - virt_h) + ui_offset) ELSE sy >>]

\* The handlers are written as functions from the game (a record g of every
\* field, Cur below) to the game after the call; an action of the next-state
\* relation applies the handler of the active mode to the current state.

\* dict.get(level_name, 0) on the star records
stars_record(ls, level_name) == IF level_name \in DOMAIN ls THEN ls[level_name] ELSE 0

\* Game.save_data
save_data_no_stars(g) ==
    [g EXCEPT !.save_file =
        [exists |-> TRUE,
         data |-> [level_index |-> g.saved_level_index, coins |-> g.global_coins,
                   bought_items |-> g.bought_items, current_skin |-> g.current_skin,
                   level_stars |-> [n \in {} |-> 0]]]]

save_data(g) ==
    [g EXCEPT !.save_file =
        [exists |-> TRUE,
         data |-> [level_index |-> g.saved_level_index, coins |-> g.global_coins,
                   bought_items |-> g.bought_items, current_skin |-> g.current_skin,
                   level_stars |-> g.level_stars]]]

\* Game.update_level_stars_record
update_level_stars_record_always(g) ==
    LET level_name == PyIndex(LEVELS, g.current_level_index) IN
    save_data([g EXCEPT !.level_stars =
                 [n \in (DOMAIN g.level_stars) \cup {level_name} |->
                     IF n = level_name THEN g.stars_collected_count
                     ELSE g.level_stars[n]]])

update_level_stars_record(g) ==
    LET level_name == PyIndex(LEVELS, g.current_level_index)
        current_record == stars_record(g.level_stars, level_name)
    IN
    IF g.stars_collected_count > current_record
    THEN save_data([g EXCEPT !.level_stars =
                      [n \in (DOMAIN g.level_stars) \cup {level_name} |->
                          IF n = level_name THEN g.stars_collected_count
                          ELSE g.level_stars[n]]])
    ELSE g

\* an uncaught IndexError ends the program
Crash(g) == [g EXCEPT !.error = "IndexError"]

\* Game.setup_level
NewCollectible(c) == [tile_x |-> c[1], tile_y |-> c[2], collected |-> FALSE]
setup_level(g) ==
    IF ~PyIndexOk(LEVELS, g.current_level_index) THEN Crash(g)
    ELSE
    LET level_name == PyIndex(LEVELS, g.current_level_index)
        tm == TileMap(g.files, level_name)
        spawn == find_player_spawn(tm)
        cs == Scan(tm, "*")
        ss == Scan(tm, "S")
        es == Scan(tm, "E")
    IN [g EXCEPT !.tilemap = tm,
                 !.player = PlayerInit(spawn[1], spawn[2]),
                 !.collectibles = [k \in 1..Len(cs) |-> NewCollectible(cs[k])],
                 !.traps = Scan(tm, "T"),
                 !.dots = Scan(tm, "."),
                 !.stars = [k \in 1..Len(ss) |-> NewCollectible(ss[k])],
                 !.exit_portal = IF es = <<>> THEN <<1, 1>> ELSE es[Len(es)],
                 !.stars_collected_count = 0,
                 !.scroll = setup_scroll(tm, PlayerInit(spawn[1], spawn[2])),
                 !.last.setup = TRUE]

\* self.state = s, reached only when nothing before it raised
set_state(g, s) == IF g.error # "none" THEN g ELSE [g EXCEPT !.state = s]

\* Game.restart_game
restart_game_keep_lives(g) ==
    set_state(setup_level([g EXCEPT !.current_level_index = 0]), "menu")

restart_game(g) ==
    set_state(setup_level([g EXCEPT !.lives = MAX_LIVES, !.current_level_index = 0]),
              "menu")

\* Game.goto_next_level
goto_next_level_nosave(g) ==
    IF g.current_level_index < Len(LEVELS) - 1
    THEN LET i == g.current_level_index + 1
             g1 == [g EXCEPT !.current_level_index = i,
                             !.saved_level_index =
                                 IF i > g.saved_level_index THEN i ELSE g.saved_level_index]
         IN set_state(setup_level(g1), "playing")
    ELSE restart_game(g)

goto_next_level_overwrite(g) ==
    IF g.current_level_index < Len(LEVELS) - 1
    THEN LET i == g.current_level_index + 1
             g1 == [g EXCEPT !.current_level_index = i, !.saved_level_index = i]
         IN set_state(setup_level(save_data(g1)), "playing")
    ELSE restart_game(g)

goto_next_level(g) ==
    IF g.current_level_index < Len(LEVELS) - 1
    THEN LET i == g.current_level_index + 1
             g1 == [g EXCEPT !.current_level_index = i,
                             !.saved_level_index =
                                 IF i > g.saved_level_index THEN i ELSE g.saved_level_index]
         IN set_state(setup_level(save_data(g1)), "playing")
    ELSE restart_game(g)

\* Game.add_screen_shake (the shake is held in 1/MS)
add_screen_shake(g, amount) ==
    [g EXCEPT !.screen_shake = IF g.screen_shake > amount * MS
                               THEN g.screen_shake ELSE amount * MS]

\* Player.start_move, with the game it shakes
start_move_bump_free(g, dx, dy) ==
    LET p == g.player
        tile_x == p.x \div PX(TILE_SIZE)
        tile_y == p.y \div PX(TILE_SIZE)
        last_free == ray_cast(g.tilemap, tile_x, tile_y, dx, dy)
    IN
    IF last_free = <<tile_x, tile_y>>
    THEN add_screen_shake(
           [g EXCEPT !.player.dir_x = dx, !.player.dir_y = dy], 1)
    ELSE [g EXCEPT !.player.target_x = PX(last_free[1] * TILE_SIZE),
                   !.player.target_y = PX(last_free[2] * TILE_SIZE),
                   !.player.dir_x = dx, !.player.dir_y = dy,
                   !.player.moving = TRUE]

start_move_one_further(g, dx, dy) ==
    LET p == g.player
        tile_x == p.x \div PX(TILE_SIZE)
        tile_y == p.y \div PX(TILE_SIZE)
        last_free == ray_cast(g.tilemap, tile_x, tile_y, dx, dy)
    IN
    IF last_free = <<tile_x, tile_y>>
    THEN add_screen_shake(
           [g EXCEPT !.player.dir_x = dx, !.player.dir_y = dy,
                      !.player.move_cooldown = BUMP_COOLDOWN], 1)
    ELSE [g EXCEPT !.player.target_x = PX((last_free[1] + dx) * TILE_SIZE),
                   !.player.target_y = PX((last_free[2] + dy) * TILE_SIZE),
                   !.player.dir_x = dx, !.player.dir_y = dy,
                   !.player.moving = TRUE]

start_move(g, dx, dy) ==
    LET p == g.player
        tile_x == p.x \div PX(TILE_SIZE)
        tile_y == p.y \div PX(TILE_SIZE)
        last_free == ray_cast(g.tilemap, tile_x, tile_y, dx, dy)
    IN
    IF last_free = <<tile_x, tile_y>>
    THEN add_screen_shake(
           [g EXCEPT !.player.dir_x = dx, !.player.dir_y = dy,
                      !.player.move_cooldown = BUMP_COOLDOWN], 1)
    ELSE [g EXCEPT !.player.target_x = PX(last_free[1] * TILE_SIZE),
                   !.player.target_y = PX(last_free[2] * TILE_SIZE),
                   !.player.dir_x = dx, !.player.dir_y = dy,
                   !.player.moving = TRUE]

\* Player.handle_input: keys is the set of direction keys held down
handle_input_nocooldown(g, keys) ==
    IF g.player.moving \/ ~g.player.alive THEN g
    ELSE IF "K_LEFT" \in keys THEN start_move(g, -1, 0)
    ELSE IF "K_RIGHT" \in keys THEN start_move(g, 1, 0)
    ELSE IF "K_UP" \in keys THEN start_move(g, 0, -1)
    ELSE IF "K_DOWN" \in keys THEN start_move(g, 0, 1)
    ELSE g

handle_input_down_first(g, keys) ==
    IF g.player.moving \/ ~g.player.alive \/ g.player.move_cooldown > 0 THEN g
    ELSE IF "K_DOWN" \in keys THEN start_move(g, 0, 1)
    ELSE IF "K_LEFT" \in keys THEN start_move(g, -1, 0)
    ELSE IF "K_RIGHT" \in keys THEN start_move(g, 1, 0)
    ELSE IF "K_UP" \in keys THEN start_move(g, 0, -1)
    ELSE g

handle_input(g, keys) ==
    IF g.player.moving \/ ~g.player.alive \/ g.player.move_cooldown > 0 THEN g
    ELSE IF "K_LEFT" \in keys THEN start_move(g, -1, 0)
    ELSE IF "K_RIGHT" \in keys THEN start_move(g, 1, 0)
    ELSE IF "K_UP" \in keys THEN start_move(g, 0, -1)
    ELSE IF "K_DOWN" \in keys THEN start_move(g, 0, 1)
    ELSE g

\* Game.handle_collectibles: coins, matched by tile coordinate, each saved
RECURSIVE collect_from(_, _)
collect_from(g, k) ==
    IF k > Len(g.collectibles) THEN g
    ELSE LET c == g.collectibles[k]
             pt == get_tile_pos(g.player)
         IN IF ~c.collected /\ c.tile_x = pt[1] /\ c.tile_y = pt[2]
            THEN collect_from(
                   save_data([g EXCEPT !.collectibles[k].collected = TRUE,
                                       !.global_coins = g.global_coins + 1]), k + 1)
            ELSE collect_from(g, k + 1)
handle_collectibles(g) == collect_from(g, 1)

\* Game.handle_traps: the first trap hit kills; traps are always active
handle_traps_by_corner(g) ==
    IF ~g.player.alive THEN g
    ELSE IF \E k \in 1..Len(g.traps) :
              LET r == trap_rect(g.traps[k])
                  q == player_rect(g.player)
              IN /\ r.x <= q.x /\ q.x < r.x + r.w
                 /\ r.y <= q.y /\ q.y < r.y + r.h
    THEN [g EXCEPT !.player = kill(g.player, 0), !.last.trap_hit = TRUE]
    ELSE g

handle_traps(g) ==
    IF ~g.player.alive THEN g
    ELSE IF \E k \in 1..Len(g.traps) : colliderect(trap_rect(g.traps[k]), player_rect(g.player))
    THEN [g EXCEPT !.player = kill(g.player, 0), !.last.trap_hit = TRUE]
    ELSE g

\* Game.handle_stars: the first uncollected star overlapped, one per frame
handle_stars(g) ==
    LET hit == {k \in 1..Len(g.stars) :
                  ~g.stars[k].collected
                  /\ colliderect(star_rect(g.stars[k]), player_rect(g.player))}
    IN IF hit = {} THEN g
       ELSE [g EXCEPT !.stars[MinOf(hit)].collected = TRUE,
                      !.stars_collected_count = g.stars_collected_count + 1,
                      !.last.star_hit = TRUE]

\* the dot loop of Game.update_playing: overlapped dots leave the list
handle_dots_by_tile(g) ==
    [g EXCEPT !.dots = SelectSeq(g.dots, LAMBDA d : d # get_tile_pos(g.player))]

handle_dots(g) ==
    [g EXCEPT !.dots = SelectSeq(g.dots,
                         LAMBDA d : ~colliderect(dot_rect(d), player_rect(g.player)))]

\* Game.finish_player_death
finish_player_death_norespawn(g) ==
    LET g1 == [g EXCEPT !.lives = g.lives - 1, !.last.died = TRUE] IN
    IF g1.lives <= 0
    THEN [g1 EXCEPT !.state = "game_over", !.overlay_index = 0]
    ELSE g1

finish_player_death_rearm(g) ==
    LET g1 == [g EXCEPT !.lives = g.lives - 1, !.last.died = TRUE] IN
    IF g1.lives <= 0
    THEN [g1 EXCEPT !.state = "game_over", !.overlay_index = 0]
    ELSE [g1 EXCEPT !.player = reset_to_start(g1.player),
                    !.stars = [k \in 1..Len(g1.stars) |->
                                  [g1.stars[k] EXCEPT !.collected = FALSE]]]

finish_player_death(g) ==
    LET g1 == [g EXCEPT !.lives = g.lives - 1, !.last.died = TRUE] IN
    IF g1.lives <= 0
    THEN [g1 EXCEPT !.state = "game_over", !.overlay_index = 0]
    ELSE [g1 EXCEPT !.player = reset_to_start(g1.player)]

\* the exit check of Game.update_playing
check_exit(g) ==
    IF colliderect(exit_rect(g.exit_portal), player_rect(g.player))
    THEN [update_level_stars_record(g) EXCEPT !.state = "level_complete",
                                              !.last.exit_hit = TRUE]
    ELSE g

\* a left click is an event "CLICK", "CLICK_CORNER" or "CLICK_BUTTON", by
\* where the pointer is: in the middle of the window, in its top left corner,
\* or where draw_hud puts the pause button
Clicks == {"CLICK", "CLICK_CORNER", "CLICK_BUTTON"}
ClickPos(e) ==
    IF e = "CLICK_CORNER" THEN <<10, 10>>
    ELSE IF e = "CLICK_BUTTON" THEN <<WINDOW_WIDTH - 50, 36>>
    ELSE <<WINDOW_WIDTH \div 2, WINDOW_HEIGHT \div 2>>
\* pygame.Rect.collidepoint
collidepoint(r, pos) ==
    /\ r.x <= pos[1] /\ pos[1] < r.x + r.w
    /\ r.y <= pos[2] /\ pos[2] < r.y + r.h
\* Game.pause_btn_rect: the rect of the 28 x 28 pause image, at topleft
PAUSE_BTN_SIZE == 28
pause_btn(topleft) == Rect(topleft[1], topleft[2], PAUSE_BTN_SIZE, PAUSE_BTN_SIZE)

\* the pause loop of Game.update_playing: one event
playing_event_forget(g, e) ==
    IF e = "K_p" \/ (e \in Clicks /\ collidepoint(pause_btn(g.pause_btn_rect), ClickPos(e)))
    THEN [g EXCEPT !.state = "pause", !.overlay_index = 0, !.stars_collected_count = 0]
    ELSE g

playing_event(g, e) ==
    IF e = "K_p" \/ (e \in Clicks /\ collidepoint(pause_btn(g.pause_btn_rect), ClickPos(e)))
    THEN [g EXCEPT !.state = "pause", !.overlay_index = 0]
    ELSE g

\* a handler's loop over the frame's events; an uncaught error ends it
RECURSIVE for_events(_, _, _)
for_events(handle(_, _), g, events) ==
    IF events = <<>> \/ g.error # "none" THEN g
    ELSE for_events(handle, handle(g, Head(events)), Tail(events))

\* sequential composition: F applied to the value of v (v is evaluated once)
Then(v, F(_)) == CHOOSE y \in {F(x) : x \in {v}} : TRUE

\* the screen shake decay and the player's part of Game.update_playing
decay_shake(g, dt) ==
    IF g.screen_shake > 0
    THEN [g EXCEPT !.screen_shake =
             IF g.screen_shake - 60 * dt < 0 THEN 0 ELSE g.screen_shake - 60 * dt]
    ELSE g
update_player(g, dt) == [g EXCEPT !.player = player_update(g.player, dt)]
check_death(g) ==
    IF ~g.player.alive /\ g.player.death_timer <= 0 THEN finish_player_death(g) ELSE g

\* Game.update_playing (the fade is drawn state, not modelled)
update_playing(g, dt, keys, events) ==
    Then(Then(Then(Then(Then(Then(Then(Then(Then(Then(Then(g,
        LAMBDA x : decay_shake(x, dt)),
        LAMBDA x : handle_input(x, keys)),
        LAMBDA x : update_player(x, dt)),
        LAMBDA x : camera_follow(x, dt)),
        handle_collectibles),
        handle_traps),
        handle_stars),
        handle_dots),
        check_death),
        check_exit),
        LAMBDA x : for_events(playing_event, x, events))

\* the overlay action a handler takes, as last records it: "resume",
\* "restart" (the level), "menu" (return to the menu) or "advance"
Did(g, a) == [g EXCEPT !.last.acts = Append(g.last.acts, a)]

\* Game.handle_pause_action
handle_pause_action(g, index) ==
    IF index = 0 THEN [Did(g, "resume") EXCEPT !.state = "playing"]
    ELSE IF index = 1 THEN set_state(setup_level(Did(g, "restart")), "playing")
    ELSE IF index = 2 THEN restart_game(Did(g, "menu"))
    ELSE g

\* Game.update_pause: one event of the loop
pause_event_respawn(g, e) ==
    IF e = "K_UP" THEN [g EXCEPT !.overlay_index = (g.overlay_index - 1) % 3]
    ELSE IF e = "K_DOWN" THEN [g EXCEPT !.overlay_index = (g.overlay_index + 1) % 3]
    ELSE IF e = "K_RETURN" THEN handle_pause_action(g, g.overlay_index)
    ELSE IF e = "K_p"
    THEN [Did(g, "resume") EXCEPT !.state = "playing",
                                  !.player = reset_to_start(g.player)]
    ELSE IF e = "K_r" THEN set_state(setup_level(Did(g, "restart")), "playing")
    ELSE IF e = "K_q" THEN restart_game(Did(g, "menu"))
    ELSE g

pause_event(g, e) ==
    IF e = "K_UP" THEN [g EXCEPT !.overlay_index = (g.overlay_index - 1) % 3]
    ELSE IF e = "K_DOWN" THEN [g EXCEPT !.overlay_index = (g.overlay_index + 1) % 3]
    ELSE IF e = "K_RETURN" THEN handle_pause_action(g, g.overlay_index)
    ELSE IF e = "K_p" THEN [Did(g, "resume") EXCEPT !.state = "playing"]
    ELSE IF e = "K_r" THEN set_state(setup_level(Did(g, "restart")), "playing")
    ELSE IF e = "K_q" THEN restart_game(Did(g, "menu"))
    ELSE g

\* the button under the mouse pointer: hover is its index, -1 for none
mouse_clicked(events) == \E k \in 1..Len(events) : events[k] \in Clicks

\* Game.update_pause
update_pause(g, events, hover) ==
    LET g1 == for_events(pause_event, g, events) IN
    IF g1.error # "none" THEN g1
    ELSE IF hover \in 0..2
    THEN LET g2 == [g1 EXCEPT !.overlay_index = hover] IN
         IF mouse_clicked(events) THEN handle_pause_action(g2, hover) ELSE g2
    ELSE g1

\* Game.handle_game_over_action
handle_game_over_action_keep_lives(g, index) ==
    IF index = 0
    THEN set_state(setup_level(Did(g, "restart")), "playing")
    ELSE IF index = 1 THEN restart_game(Did(g, "menu"))
    ELSE g

handle_game_over_action(g, index) ==
    IF index = 0
    THEN set_state(setup_level([Did(g, "restart") EXCEPT !.lives = MAX_LIVES]), "playing")
    ELSE IF index = 1 THEN restart_game(Did(g, "menu"))
    ELSE g

\* Game.update_game_over: one event of the loop
game_over_event(g, e) ==
    IF e = "K_UP" THEN [g EXCEPT !.overlay_index = (g.overlay_index - 1) % 2]
    ELSE IF e = "K_DOWN" THEN [g EXCEPT !.overlay_index = (g.overlay_index + 1) % 2]
    ELSE IF e = "K_RETURN" THEN handle_game_over_action(g, g.overlay_index)
    ELSE IF e = "K_r" THEN handle_game_over_action(g, 0)
    ELSE IF e = "K_q" THEN restart_game(Did(g, "menu"))
    ELSE g

\* Game.update_game_over
update_game_over(g, events, hover) ==
    LET g1 == for_events(game_over_event, g, events) IN
    IF g1.error # "none" THEN g1
    ELSE IF hover \in 0..1
    THEN LET g2 == [g1 EXCEPT !.overlay_index = hover] IN
         IF mouse_clicked(events) THEN handle_game_over_action(g2, hover) ELSE g2
    ELSE g1

\* Game.update_level_complete: one event of the loop
level_complete_event(g, e) ==
    IF e \in {"K_n", "K_RETURN"} THEN goto_next_level(Did(g, "advance"))
    ELSE IF e \in {"K_q", "K_ESCAPE"} THEN restart_game(Did(g, "menu"))
    ELSE g

\* Game.update_level_complete
update_level_complete(g, events) ==
    LET g1 == for_events(level_complete_event, g, events) IN
    IF g1.error # "none" THEN g1
    ELSE IF mouse_clicked(events) THEN goto_next_level(Did(g1, "advance")) ELSE g1

\* Game.handle_main_menu_selection
menu_options == <<"PLAY", "LEVELS", "SHOP", "QUIT">>
handle_main_menu_selection(g) ==
    IF ~PyIndexOk(menu_options, g.selected_index) THEN Crash(g)
    ELSE
    LET choice == PyIndex(menu_options, g.selected_index) IN
    IF choice = "PLAY"
    THEN set_state(
           setup_level([g EXCEPT !.current_level_index =
                           IF g.saved_level_index >= Len(LEVELS)
                           THEN 0 ELSE g.saved_level_index]),
           "playing")
    ELSE IF choice = "LEVELS" THEN [g EXCEPT !.menu_state = "levels", !.selected_index = 0]
    ELSE IF choice = "SHOP" THEN [g EXCEPT !.state = "shop"]
    ELSE [g EXCEPT !.quit_posted = TRUE]

\* Game.handle_level_menu_selection
handle_level_menu_selection(g) ==
    IF g.selected_index = Len(LEVELS)
    THEN [g EXCEPT !.menu_state = "main", !.selected_index = 1]
    ELSE set_state(setup_level([g EXCEPT !.current_level_index = g.selected_index]),
                   "playing")

menu_select(g) ==
    IF g.menu_state = "main" THEN handle_main_menu_selection(g)
    ELSE IF g.menu_state = "levels" THEN handle_level_menu_selection(g)
    ELSE g

\* Game.update_menu: one event of the loop
menu_event(g, e) ==
    IF e = "K_UP" THEN [g EXCEPT !.selected_index = g.selected_index - 1]
    ELSE IF e = "K_DOWN" THEN [g EXCEPT !.selected_index = g.selected_index + 1]
    ELSE IF e = "K_RETURN" THEN menu_select(g)
    ELSE IF e = "K_ESCAPE" /\ g.menu_state = "levels"
    THEN [g EXCEPT !.menu_state = "main", !.selected_index = 0]
    ELSE g

\* Game.update_menu (the background scroll and particles are not modelled)
update_menu(g, events, hover) ==
    LET g1 == for_events(menu_event, g, events) IN
    IF g1.error # "none" THEN g1
    ELSE
    LET max_len == IF g1.menu_state = "main" THEN Len(menu_options) ELSE Len(LEVELS) + 1
        g2 == [g1 EXCEPT !.selected_index = g1.selected_index % max_len]
    IN IF hover \in 0..(max_len - 1)
       THEN LET g3 == [g2 EXCEPT !.selected_index = hover] IN
            IF mouse_clicked(events) THEN menu_select(g3) ELSE g3
       ELSE g2

\* ------------------------------------------------------------ shop.py
\* Shop.__init__: SKINS sorted by price
shop_items == << [key |-> "travel_boy", price |-> 0],
                 [key |-> "agent", price |-> 5],
                 [key |-> "cyclop", price |-> 10] >>
Owns(g, key) == \E k \in 1..Len(g.bought_items) : g.bought_items[k] = key

\* Shop.action_item
action_item(g) ==
    LET item == shop_items[g.shop_selected_index + 1] IN
    IF Owns(g, item.key) THEN save_data([g EXCEPT !.current_skin = item.key])
    ELSE IF g.global_coins >= item.price
    THEN save_data([g EXCEPT !.global_coins = g.global_coins - item.price,
                             !.bought_items = Append(g.bought_items, item.key),
                             !.current_skin = item.key])
    ELSE g

\* Shop.update: one event of the loop
shop_event(g, e) ==
    IF e = "K_ESCAPE" THEN [g EXCEPT !.state = "menu", !.menu_state = "main"]
    ELSE IF e = "K_LEFT"
    THEN [g EXCEPT !.shop_selected_index = (g.shop_selected_index - 1) % Len(shop_items)]
    ELSE IF e = "K_RIGHT"
    THEN [g EXCEPT !.shop_selected_index = (g.shop_selected_index + 1) % Len(shop_items)]
    ELSE IF e = "K_RETURN" THEN action_item(g)
    ELSE g

\* Shop.update: hover is the card under the pointer, Len(shop_items) for the
\* back button, -1 for neither
shop_update(g, events, hover) ==
    LET g1 == for_events(shop_event, g, events)
        g2 == IF hover = Len(shop_items) /\ mouse_clicked(events)
              THEN [g1 EXCEPT !.state = "menu", !.menu_state = "main"] ELSE g1
    IN IF hover \in 0..(Len(shop_items) - 1)
       THEN LET g3 == [g2 EXCEPT !.shop_selected_index = hover] IN
            IF mouse_clicked(events) THEN action_item(g3) ELSE g3
       ELSE g2

\* Game.draw: what it writes.  draw_game ends with draw_hud, which moves the
\* pause button's rect to its place in the HUD bar; draw_menu, Shop.draw and
\* the overlays write no field
draw(g) ==
    IF g.state \in {"menu", "shop"} THEN g
    ELSE [g EXCEPT !.pause_btn_rect = <<WINDOW_WIDTH - 60, 26>>]

\* ------------------------------------------------------------ state
\* The fields of Game (game.py), of its Shop, of the level session and of
\* the Player; the level files and the save file the program reads and
\* writes; running, the flag of main's loop; quit_posted, a QUIT event
\* posted for the next frame; error, an exception that ended the program;
\* last, what the last call did (which handler ran, and what it met).
VARIABLES
    files, save_file, running, quit_posted, error, state, menu_state,
    selected_index, overlay_index, lives, current_level_index,
    saved_level_index, global_coins, bought_items, current_skin,
    shop_selected_index, level_stars, screen_shake, tilemap, player,
    collectibles, traps, stars, dots, exit_portal, stars_collected_count,
    scroll, pause_btn_rect, last

vars ==
    <<files, save_file, running, quit_posted, error, state, menu_state,
      selected_index, overlay_index, lives, current_level_index,
      saved_level_index, global_coins, bought_items, current_skin,
      shop_selected_index, level_stars, screen_shake, tilemap, player,
      collectibles, traps, stars, dots, exit_portal, stars_collected_count,
      scroll, pause_btn_rect, last>>

\* the game as one record
Cur ==
    [files |-> files, save_file |-> save_file, running |-> running,
     quit_posted |-> quit_posted, error |-> error, state |-> state,
     menu_state |-> menu_state, selected_index |-> selected_index,
     overlay_index |-> overlay_index, lives |-> lives,
     current_level_index |-> current_level_index,
     saved_level_index |-> saved_level_index, global_coins |-> global_coins,
     bought_items |-> bought_items, current_skin |-> current_skin,
     shop_selected_index |-> shop_selected_index,
     level_stars |-> level_stars, screen_shake |-> screen_shake,
     tilemap |-> tilemap, player |-> player, collectibles |-> collectibles,
     traps |-> traps, stars |-> stars, dots |-> dots,
     exit_portal |-> exit_portal,
     stars_collected_count |-> stars_collected_count, scroll |-> scroll,
     pause_btn_rect |-> pause_btn_rect, last |-> last]

\* what the last step did: the game's calls set their flags; a direct call
\* of a test driver records its name in op and its input in arg
BlankLast ==
    [setup |-> FALSE, trap_hit |-> FALSE, star_hit |-> FALSE, exit_hit |-> FALSE,
     died |-> FALSE, acts |-> <<>>, op |-> "frame", arg |-> <<>>]
Begin == [Cur EXCEPT !.last = BlankLast]

\* the next state is the game r
Commit(r) ==
    /\ files' = r.files
    /\ save_file' = r.save_file
    /\ quit_posted' = r.quit_posted
    /\ error' = r.error
    /\ state' = r.state
    /\ menu_state' = r.menu_state
    /\ selected_index' = r.selected_index
    /\ overlay_index' = r.overlay_index
    /\ lives' = r.lives
    /\ current_level_index' = r.current_level_index
    /\ saved_level_index' = r.saved_level_index
    /\ global_coins' = r.global_coins
    /\ bought_items' = r.bought_items
    /\ current_skin' = r.current_skin
    /\ shop_selected_index' = r.shop_selected_index
    /\ level_stars' = r.level_stars
    /\ screen_shake' = r.screen_shake
    /\ tilemap' = r.tilemap
    /\ player' = r.player
    /\ collectibles' = r.collectibles
    /\ traps' = r.traps
    /\ stars' = r.stars
    /\ dots' = r.dots
    /\ exit_portal' = r.exit_portal
    /\ stars_collected_count' = r.stars_collected_count
    /\ scroll' = r.scroll
    /\ pause_btn_rect' = r.pause_btn_rect
    /\ last' = r.last
    /\ running' = (r.running /\ ~quit_posted)

\* ------------------------------------------------------------ level files
\* The level files are assets outside the source tree: the model is checked
\* on the level packs below.
\* a trap before the exit on the way right, a trap before a dot on the way down
TrapLevel ==
    << <<"#", "#", "#", "#", "#", "#", "#">>,
       <<"#", "P", " ", " ", "T", "E", "#">>,
       <<"#", " ", "#", "#", "#", "#", "#">>,
       <<"#", " ", "#", "#", "#", "#", "#">>,
       <<"#", "T", "#", "#", "#", "#", "#">>,
       <<"#", ".", "#", "#", "#", "#", "#">>,
       <<"#", "#", "#", "#", "#", "#", "#">> >>
\* a star on the long way to the exit, none on the short one
StarLevel ==
    << <<"#", "#", "#", "#", "#">>,
       <<"#", "P", " ", "S", "#">>,
       <<"#", "E", " ", " ", "#">>,
       <<"#", "#", "#", "#", "#">> >>
\* a coin off the way to the exit
CoinLevel ==
    << <<"#", "#", "#", "#">>,
       <<"#", "P", "E", "#">>,
       <<"#", "*", "#", "#">>,
       <<"#", "#", "#", "#">> >>
\* the exit next to the spawn
ShortLevel ==
    << <<"#", "#", "#", "#">>,
       <<"#", "P", "E", "#">>,
       <<"#", "#", "#", "#">> >>
File(lines) == [exists |-> TRUE, lines |-> lines]
Pack(l1, l2, l3) ==
    [n \in {"level1", "level2", "level3"} |->
        IF n = "level1" THEN File(l1) ELSE IF n = "level2" THEN File(l2) ELSE File(l3)]
\* the save file the program finds at start: none, or earlier progress
NoSave == [exists |-> FALSE, data |-> default_data]
OldSave ==
    [exists |-> TRUE,
     data |-> [level_index |-> 2, coins |-> 0, bought_items |-> <<"travel_boy">>,
               current_skin |-> "travel_boy", level_stars |-> [n \in {} |-> 0]]]
\* the installations: the level files and the save file
Installs ==
    { [files |-> Pack(TrapLevel, ShortLevel, ShortLevel), save_file |-> NoSave],
      [files |-> Pack(ShortLevel, StarLevel, ShortLevel), save_file |-> NoSave],
      [files |-> Pack(ShortLevel, ShortLevel, CoinLevel), save_file |-> OldSave] }

\* ------------------------------------------------------------ Init
\* Game.__init__ on level files fs and save file sf
NewGame(fs, sf) ==
    LET data == load_game_data(sf) IN
    setup_level(
        [files |-> fs, save_file |-> sf, running |-> TRUE, quit_posted |-> FALSE,
         error |-> "none", state |-> "menu", menu_state |-> "main",
         selected_index |-> 0, overlay_index |-> 0, lives |-> MAX_LIVES,
         current_level_index |-> 0, saved_level_index |-> data.level_index,
         global_coins |-> data.coins, bought_items |-> data.bought_items,
         current_skin |-> data.current_skin, shop_selected_index |-> 0,
         level_stars |-> data.level_stars, screen_shake |-> 0,
         tilemap |-> TileMap(fs, "level1"), player |-> PlayerInit(0, 0),
         collectibles |-> <<>>, traps |-> <<>>, stars |-> <<>>, dots |-> <<>>,
         exit_portal |-> <<1, 1>>, stars_collected_count |-> 0,
         scroll |-> <<0, 0>>, pause_btn_rect |-> <<0, 0>>, last |-> BlankLast])

\* the state is the game r
StartAt(r) ==
    /\ files = r.files
    /\ save_file = r.save_file
    /\ running = r.running
    /\ quit_posted = r.quit_posted
    /\ error = r.error
    /\ state = r.state
    /\ menu_state = r.menu_state
    /\ selected_index = r.selected_index
    /\ overlay_index = r.overlay_index
    /\ lives = r.lives
    /\ current_level_index = r.current_level_index
    /\ saved_level_index = r.saved_level_index
    /\ global_coins = r.global_coins
    /\ bought_items = r.bought_items
    /\ current_skin = r.current_skin
    /\ shop_selected_index = r.shop_selected_index
    /\ level_stars = r.level_stars
    /\ screen_shake = r.screen_shake
    /\ tilemap = r.tilemap
    /\ player = r.player
    /\ collectibles = r.collectibles
    /\ traps = r.traps
    /\ stars = r.stars
    /\ dots = r.dots
    /\ exit_portal = r.exit_portal
    /\ stars_collected_count = r.stars_collected_count
    /\ scroll = r.scroll
    /\ pause_btn_rect = r.pause_btn_rect
    /\ last = r.last

Init == \E i \in Installs : StartAt(NewGame(i.files, i.save_file))

\* ------------------------------------------------------------ frames
\* main: one frame is one Game.update on the frame's inputs (dt, the
\* direction keys held, the batch of events and the button under the pointer)
\* and the Game.draw that follows it
Batches(keys) == UNION {[1..n -> keys] : n \in 0..MaxEvents}
KeySets == {{}, {"K_LEFT"}, {"K_RIGHT"}, {"K_UP"}, {"K_DOWN"}, {"K_RIGHT", "K_DOWN"}}
Live == running /\ error = "none"
\* the frames of a menu: key events with the pointer off the buttons, or the
\* pointer on button h, pressed or not
Frames(keys, buttons) ==
    {[events |-> e, hover |-> -1] : e \in Batches(keys)}
    \cup {[events |-> e, hover |-> h] : e \in {<<>>, <<"CLICK">>}, h \in buttons}

\* main: the frame ends with Game.draw, unless update raised
Frame(r) == Commit(IF r.error = "none" THEN draw(r) ELSE r)

UpdateMenu ==
    /\ Live /\ state = "menu"
    /\ \E f \in Frames({"K_DOWN", "K_RETURN", "K_ESCAPE"}, {}) :
          \E r \in {update_menu(Begin, f.events, f.hover)} : Frame(r)

UpdateShop ==
    /\ Live /\ state = "shop"
    /\ \E f \in Frames({"K_ESCAPE", "K_RETURN"}, {}) :
          \E r \in {shop_update(Begin, f.events, f.hover)} : Frame(r)

UpdatePlaying ==
    /\ Live /\ state = "playing"
    /\ \E dt \in DTs, keys \in KeySets, events \in {<<>>, <<"K_p">>} :
          \E r \in {update_playing(Begin, dt, keys, events)} :
          /\ r.global_coins <= MaxCoins
          /\ r.lives >= -MaxDebt
          /\ Frame(r)

UpdatePause ==
    /\ Live /\ state = "pause"
    /\ \E f \in Frames({"K_p", "K_r", "K_q"}, {}) :
          \E r \in {update_pause(Begin, f.events, f.hover)} : Frame(r)

UpdateGameOver ==
    /\ Live /\ state = "game_over"
    /\ \E f \in Frames({"K_r", "K_q"}, {}) :
          \E r \in {update_game_over(Begin, f.events, f.hover)} : Frame(r)

UpdateLevelComplete ==
    /\ Live /\ state = "level_complete"
    /\ \E f \in Frames({"K_n", "K_q"}, {}) :
          \E r \in {update_level_complete(Begin, f.events)} : Frame(r)

\* Game.update: one frame of main's loop; the if/elif chain on self.state is
\* the guard of each action, so exactly the handler of the active mode runs
Next ==
    \/ UpdateMenu
    \/ UpdateShop
    \/ UpdatePlaying
    \/ UpdatePause
    \/ UpdateGameOver
    \/ UpdateLevelComplete

Spec == Init /\ [][Next]_vars

\* ------------------------------------------------------------ the grid and
\* the player on their own (the fixture of test_logic.py: a TileMap and a
\* Player on it, driven by direct calls)
\* the level of the specification's end-to-end test
SpecLevel ==
    << <<"#", "#", "#", "#", "#">>,
       <<"#", "P", ".", ".", "#">>,
       <<"#", ".", "T", ".", "#">>,
       <<"#", ".", ".", "E", "#">>,
       <<"#", "#", "#", "#", "#">> >>
\* every tile kind, rows of unequal length, two spawns
MixedLevel ==
    << <<" ", "*", "P">>,
       <<"S", "#", "T", ".">>,
       <<"P", "E">> >>
\* no spawn, and a wall on tile (1,1)
WalledLevel ==
    << <<".", " ">>,
       <<" ", "#">> >>
\* the corridors: one row, or one column, of at most MaxLen walls and floors
Rows == UNION {[1..n -> {"#", " "}] : n \in 1..MaxLen}
Corridors == {<<r>> : r \in Rows} \cup {[i \in 1..Len(r) |-> <<r[i]>>] : r \in Rows}
GridFiles ==
    {File(SpecLevel), File(MixedLevel), File(WalledLevel),
     [exists |-> FALSE, lines |-> <<>>]}
    \cup {File(c) : c \in Corridors}
Missing == [exists |-> FALSE, lines |-> <<>>]
GridPack(f) ==
    [n \in {"level1", "level2", "level3"} |-> IF n = "level1" THEN f ELSE Missing]

InitGrid == \E f \in GridFiles : StartAt(NewGame(GridPack(f), NoSave))

\* the cells of the grid and the ring around it
Ring(n) == -1..n
Called(op, arg) == [BlankLast EXCEPT !.op = op, !.arg = arg]
Only(r) == Commit([Cur EXCEPT !.player = r.player, !.screen_shake = r.screen_shake,
                              !.last = r.last])

\* TileMap.is_solid(x, y)
CallIsSolid ==
    \E x \in Ring(tilemap.width), y \in Ring(tilemap.height) :
        Only([Cur EXCEPT !.last = Called("is_solid",
                 [x |-> x, y |-> y, result |-> is_solid(tilemap, x, y)])])

\* Player(game, tilemap, x, y) on a cell that is not solid
CallPlayer ==
    \E x \in 0..(tilemap.width - 1), y \in 0..(tilemap.height - 1) :
        /\ ~is_solid(tilemap, x, y)
        /\ Only([Cur EXCEPT !.player = PlayerInit(x, y), !.last = Called("Player", <<>>)])

\* Player.handle_input with keys held; arg tells whether a direction key was
\* held and whether the call reached start_move
CallHandleInput ==
    \E keys \in KeySets :
        Only(handle_input(
               [Cur EXCEPT !.last = Called("handle_input",
                   [pressed |-> keys # {},
                    started |-> /\ ~player.moving /\ player.alive
                                /\ player.move_cooldown <= 0 /\ keys # {}])],
               keys))

\* Player.update(dt)
CallUpdate ==
    \E dt \in SlowDTs :
        Only([Cur EXCEPT !.player = player_update(player, dt),
                         !.last = Called("update", <<>>)])

\* Player.kill(death_duration)
CallKill ==
    \E d \in DeathDurations :
        Only([Cur EXCEPT !.player = kill(player, d), !.last = Called("kill", d)])

\* Player.reset_to_start(); arg tells what the player was before it
CallReset ==
    Only([Cur EXCEPT !.player = reset_to_start(player),
                     !.last = Called("reset_to_start",
                         [dead |-> ~player.alive,
                          away |-> <<player.x, player.y>> #
                                   <<PX(player.spawn_tile_x * TILE_SIZE),
                                     PX(player.spawn_tile_y * TILE_SIZE)>>])])

NextTiles == CallIsSolid

SpecTiles == InitGrid /\ [][NextTiles]_vars

NextGrid ==
    \/ CallPlayer
    \/ CallHandleInput
    \/ CallUpdate
    \/ CallKill
    \/ CallReset

SpecGrid == InitGrid /\ [][NextGrid]_vars

\* Player.handle_input with any of the direction keys held together; arg
\* tells the keys too
HeldSets == SUBSET {"K_LEFT", "K_RIGHT", "K_UP", "K_DOWN"}
CallHeld ==
    \E keys \in HeldSets :
        Only(handle_input(
               [Cur EXCEPT !.last = Called("handle_input",
                   [keys |-> keys, pressed |-> keys # {},
                    started |-> /\ ~player.moving /\ player.alive
                                /\ player.move_cooldown <= 0 /\ keys # {}])],
               keys))

NextKeys ==
    \/ CallPlayer
    \/ CallHeld
    \/ CallUpdate
    \/ CallKill

SpecKeys == InitGrid /\ [][NextKeys]_vars

\* Player.update(dt) called again and again with short frames (ms), so that
\* a slide takes several updates; the caller never stops calling it
StepDTs == {10, 20}
CallStep ==
    \E dt \in StepDTs :
        Only([Cur EXCEPT !.player = player_update(player, dt),
                         !.last = Called("update", dt)])

NextSlide ==
    \/ CallHandleInput
    \/ CallStep
    \/ CallKill

InitSlide == StartAt(NewGame(GridPack(File(SpecLevel)), NoSave))

SpecSlide == InitSlide /\ [][NextSlide]_vars /\ WF_vars(CallStep)

\* ------------------------------------------------------------ the game
\* under a test driver, which gives it lives through the lives setter, puts
\* a star on the trap's tile and starts the play; a coin lies on the way
\* from the spawn to the trap
TestLevel ==
    << <<"#", "#", "#", "#", "#", "#", "#">>,
       <<"#", "P", " ", "*", "T", " ", "#">>,
       <<"#", "E", "#", "#", "#", "#", "#">>,
       <<"#", "#", "#", "#", "#", "#", "#">> >>
TestGame(n) ==
    LET g == NewGame(Pack(TestLevel, ShortLevel, ShortLevel), NoSave) IN
    [g EXCEPT !.lives = n,
              !.stars = Append(g.stars, NewCollectible(g.traps[1])),
              !.state = "playing"]

InitTest == \E n \in 1..MaxTestLives : StartAt(TestGame(n))

\* the driver calls Game.update_playing by itself with a left click somewhere
\* in the window, and no Game.draw after it
CallClick ==
    /\ Live /\ state = "playing"
    /\ \E e \in Clicks, dt \in DTs :
          \E r \in {update_playing([Cur EXCEPT !.last = Called("update", e)],
                                   dt, {}, <<e>>)} :
          /\ r.global_coins <= MaxCoins
          /\ r.lives >= -MaxDebt
          /\ Commit(r)

\* the driver calls Game.draw by itself
CallDraw ==
    /\ Live
    /\ Commit(draw([Cur EXCEPT !.last = Called("draw", state)]))

NextTest ==
    \/ CallClick
    \/ CallDraw
    \/ UpdatePlaying
    \/ UpdatePause
    \/ UpdateGameOver
    \/ UpdateLevelComplete

SpecTest == InitTest /\ [][NextTest]_vars

\* ------------------------------------------------------------ the game
\* on levels larger than the view: a corridor of WideTiles tiles in one row,
\* and one of TallTiles tiles in one column beside a wall (load_level drops a
\* line of spaces), the spawn at one end and the exit at the other
WideTiles == 42
TallTiles == 32
Corridor(n) == [i \in 1..n |-> IF i = 1 THEN "P" ELSE IF i = n THEN "E" ELSE " "]
WideLevel == <<Corridor(WideTiles)>>
TallLevel == [i \in 1..TallTiles |-> <<"#", Corridor(TallTiles)[i]>>]
\* a play started on level i of these
CameraGame(i) ==
    LET g == NewGame(Pack(WideLevel, TallLevel, ShortLevel), NoSave) IN
    set_state(setup_level([g EXCEPT !.current_level_index = i]), "playing")

InitCamera == \E i \in {0, 1} : StartAt(CameraGame(i))

\* frames of any length
CameraFrame ==
    /\ Live /\ state = "playing"
    /\ \E dt \in CameraDTs, keys \in {{}, {"K_RIGHT"}, {"K_DOWN"}} :
          \E r \in {update_playing(Begin, dt, keys, <<>>)} : Frame(r)

NextCamera ==
    \/ CameraFrame
    \/ UpdateLevelComplete

SpecCamera == InitCamera /\ [][NextCamera]_vars

\* ------------------------------------------------------------ the game
\* on level files without an exit marker: one where tile (1,1) is a wall
\* beside the spawn's corridor, one where a slide from the spawn ends on
\* (1,1), and one without a spawn marker either
BlockedLevel ==
    << <<"#", "#", "#", "#", "#", "#">>,
       <<"#", "#", "P", " ", "T", "#">>,
       <<"#", "#", "#", "#", "#", "#">> >>
OpenLevel ==
    << <<"#", "#", "#", "#", "#">>,
       <<"#", " ", " ", "P", "#">>,
       <<"#", "#", "#", "#", "#">> >>
BareLevel ==
    << <<"#", "#", "#", "#">>,
       <<"#", " ", " ", "#">>,
       <<"#", "#", "#", "#">> >>

InitNoExit == StartAt(NewGame(Pack(BlockedLevel, OpenLevel, BareLevel), NoSave))

SpecNoExit == InitNoExit /\ [][Next]_vars

\* ------------------------------------------------------------ the game
\* with the file of its first level missing
InitMissing ==
    StartAt(NewGame([Pack(ShortLevel, TrapLevel, ShortLevel)
                        EXCEPT !["level1"] = Missing], NoSave))

SpecMissing == InitMissing /\ [][Next]_vars

\* ------------------------------------------------------------ the game
\* played with short frames (ms), of a step of at most one tile:
\* PLAYER_SPEED * dt <= TILE_SIZE, on the level with a trap on each way
FineDTs == {20, 29}
InitTrap ==
    StartAt(set_state(NewGame(Pack(TrapLevel, ShortLevel, ShortLevel), NoSave),
                      "playing"))

FineFrame ==
    /\ Live /\ state = "playing"
    /\ \E dt \in FineDTs, keys \in {{}, {"K_RIGHT"}, {"K_DOWN"}} :
          \E r \in {update_playing(Begin, dt, keys, <<>>)} :
          /\ r.global_coins <= MaxCoins
          /\ r.lives >= -MaxDebt
          /\ Frame(r)

NextTrap ==
    \/ FineFrame
    \/ UpdateGameOver

SpecTrap == InitTrap /\ [][NextTrap]_vars

\* ------------------------------------------------------------ properties
Aligned(p) == p.x % PX(TILE_SIZE) = 0 /\ p.y % PX(TILE_SIZE) = 0
AtSpawn(p) ==
    /\ p.x = PX(p.spawn_tile_x * TILE_SIZE)
    /\ p.y = PX(p.spawn_tile_y * TILE_SIZE)
TileOf(p) == <<p.x \div PX(TILE_SIZE), p.y \div PX(TILE_SIZE)>>
TargetTile(p) == <<p.target_x \div PX(TILE_SIZE), p.target_y \div PX(TILE_SIZE)>>
Outside(tm, x, y) == x < 0 \/ y < 0 \/ x >= tm.width \/ y >= tm.height
\* handle_input has just called start_move from tile from, in direction dir
Started == last.op = "handle_input" /\ last.arg.started
StartedFrom(from, dir) ==
    Started /\ TileOf(player) = from /\ <<player.dir_x, player.dir_y>> = dir

\* C1: is_solid(x, y) is true exactly when the cell (x, y) lies outside the
\* grid or the tile there is the wall '#'; no other kind of tile is solid.
C1_IsSolid ==
    last.op = "is_solid" =>
        LET x == last.arg.x
            y == last.arg.y
        IN last.arg.result =
             (Outside(tilemap, x, y) \/ tilemap.level_data[y + 1][x + 1] = "#")

\* a trap tile inside the grid was asked for and found not solid
C1_Witness ==
    /\ last.op = "is_solid"
    /\ ~Outside(tilemap, last.arg.x, last.arg.y)
    /\ tilemap.level_data[last.arg.y + 1][last.arg.x + 1] = "T"
    /\ ~last.arg.result

\* C2: from a start cell that is not solid, start_move resolves the slide to
\* the cell n steps away in the chosen direction, n >= 0 the length of the run
\* of cells that are not solid after the start: the n cells on the way are not
\* solid and the cell n + 1 steps away is solid (a wall or outside the grid);
\* with n = 0 the player bumps and stays.
C2_SlideRun ==
    (Started /\ ~is_solid(tilemap, TileOf(player)[1], TileOf(player)[2])) =>
        LET s == TileOf(player)
            dx == player.dir_x
            dy == player.dir_y
        IN /\ Abs(dx) + Abs(dy) = 1
           /\ \E n \in 0..(tilemap.width + tilemap.height) :
                /\ \A k \in 1..n : ~is_solid(tilemap, s[1] + k * dx, s[2] + k * dy)
                /\ is_solid(tilemap, s[1] + (n + 1) * dx, s[2] + (n + 1) * dy)
                /\ IF n = 0
                   THEN ~player.moving /\ player.move_cooldown = BUMP_COOLDOWN
                   ELSE /\ player.moving
                        /\ TargetTile(player) = <<s[1] + n * dx, s[2] + n * dy>>
                        /\ player.target_x % PX(TILE_SIZE) = 0
                        /\ player.target_y % PX(TILE_SIZE) = 0

\* a slide of two cells that ends at the edge of the grid
C2_Witness ==
    /\ Started
    /\ player.moving
    /\ Abs(TargetTile(player)[1] - TileOf(player)[1])
         + Abs(TargetTile(player)[2] - TileOf(player)[2]) = 2
    /\ Outside(tilemap, TargetTile(player)[1] + player.dir_x,
                        TargetTile(player)[2] + player.dir_y)

\* C3: on the level #####/#P..#/#.T.#/#..E#/##### the spawn is tile (1,1), a
\* slide right from (1,1) stops at (3,1), a slide down from (1,1) stops at
\* (1,3), and a slide down from (2,1) passes the trap at (2,2) and stops at
\* (2,3).
C3_SpecLevel ==
    tilemap.level_data = SpecLevel =>
        /\ find_player_spawn(tilemap) = <<1, 1>>
        /\ last.setup => TileOf(player) = <<1, 1>> /\ AtSpawn(player)
        /\ StartedFrom(<<1, 1>>, <<1, 0>>) =>
               player.moving /\ TargetTile(player) = <<3, 1>>
        /\ StartedFrom(<<1, 1>>, <<0, 1>>) =>
               player.moving /\ TargetTile(player) = <<1, 3>>
        /\ StartedFrom(<<2, 1>>, <<0, 1>>) =>
               player.moving /\ TargetTile(player) = <<2, 3>>

\* the slide down from (2,1), over the trap
C3_Witness ==
    /\ tilemap.level_data = SpecLevel
    /\ StartedFrom(<<2, 1>>, <<0, 1>>)
    /\ TargetTile(player) = <<2, 3>>

\* C4: the Player that setup_level creates is alive, not moving, has its
\* target equal to its position, and stands exactly on the spawn tile that
\* find_player_spawn gives.
C4_FreshPlayer ==
    last.setup =>
        /\ player.alive
        /\ ~player.moving
        /\ player.target_x = player.x /\ player.target_y = player.y
        /\ AtSpawn(player)
        /\ <<player.spawn_tile_x, player.spawn_tile_y>> = find_player_spawn(tilemap)

\* a level set up by advancing to it or by restarting it during the play
C4_Witness == last.setup /\ state = "playing" /\ current_level_index > 0

\* C5: kill(d) leaves the player not alive, not moving, with death timer d;
\* reset_to_start leaves it alive, not moving, with death timer 0, exactly on
\* its spawn tile, whatever it was before.
C5_KillReset ==
    /\ last.op = "kill" =>
           ~player.alive /\ ~player.moving /\ player.death_timer = last.arg
    /\ last.op = "reset_to_start" =>
           /\ player.alive /\ ~player.moving /\ player.death_timer = 0
           /\ AtSpawn(player)

\* a reset of a dead player that lay away from its spawn tile
C5_Witness == last.op = "reset_to_start" /\ last.arg.dead /\ last.arg.away

\* C6: a playing update in which the player hits a trap ends, when that was
\* the last life, in game_over with the player dead, and otherwise with the
\* player alive on its spawn tile and the state still playing.
C6_TrapHit ==
    last.trap_hit =>
        IF lives <= 0
        THEN state = "game_over" /\ ~player.alive
        ELSE state = "playing" /\ player.alive /\ AtSpawn(player)

\* C7: the best star count of a level never decreases; it changes only in an
\* update that reaches the exit of that level, to the stars collected, and only
\* when these are more than the stored count (a missing record counts as 0).
C7_Step ==
    \A n \in {LEVELS[k] : k \in 1..Len(LEVELS)} :
        LET old == stars_record(level_stars, n)
            new == stars_record(level_stars', n)
        IN /\ new >= old
           /\ new # old =>
                /\ last'.exit_hit
                /\ n = PyIndex(LEVELS, current_level_index)
                /\ new = stars_collected_count'
           /\ (last'.exit_hit /\ n = PyIndex(LEVELS, current_level_index)) =>
                new = IF stars_collected_count' > old
                      THEN stars_collected_count' ELSE old
C7_StarsRecord == [][C7_Step]_vars

\* the exit reached with fewer stars than the record, which is kept
C7_Witness ==
    /\ last.exit_hit
    /\ stars_collected_count < stars_record(level_stars, PyIndex(LEVELS, current_level_index))

\* C8 as stated: with a star on the trap's tile, the update in which the
\* trap is hit ends with the player not alive, whatever the lives.
StarOnTrap ==
    \E k \in 1..Len(stars), j \in 1..Len(traps) :
        <<stars[k].tile_x, stars[k].tile_y>> = traps[j]
C8_Original == (last.trap_hit /\ StarOnTrap) => ~player.alive

\* C8: with a star on the trap's tile, the update in which the trap is hit
\* ends with the player not alive exactly when the hit took the last life;
\* with a life left the player is alive again, on its spawn tile.
C8_TrapOnStar ==
    (last.trap_hit /\ StarOnTrap) =>
        IF lives <= 0 THEN ~player.alive ELSE player.alive /\ AtSpawn(player)

\* the trap under the star hit with a life to spare
C8_Witness == last.trap_hit /\ StarOnTrap /\ lives >= 1 /\ player.alive

\* C9 as stated: a player that is not moving stands on a multiple of
\* TILE_SIZE on both axes.
C9_Original == ~player.moving => Aligned(player)

\* C9: an alive player that is not moving stands on a multiple of TILE_SIZE
\* on both axes.
C9_RestAligned == (player.alive /\ ~player.moving) => Aligned(player)

\* the player at rest after a slide, away from its spawn tile
C9_Witness == player.alive /\ ~player.moving /\ ~AtSpawn(player)

\* C10: stars_collected_count is lowered only by setup_level, which sets it
\* to 0: no playing update, death, respawn, pause or resume lowers it.
C10_Step ==
    /\ stars_collected_count' < stars_collected_count => last'.setup
    /\ last'.setup => stars_collected_count' = 0
C10_StarsKept == [][C10_Step]_vars

\* a death in a session that already holds a star, the star kept
C10_Witness == stars_collected_count = 1 /\ last.died /\ ~last.star_hit

\* C11: handle_input changes nothing of the player (position, target,
\* direction, moving, cooldown) and not the screen shake when the player is
\* moving, or not alive, or has a positive move cooldown; a call that changes
\* anything (a slide or a bump started) was made on an alive player at rest
\* whose cooldown was not positive.
C11_Step ==
    last'.op = "handle_input" =>
        LET blocked == player.moving \/ ~player.alive \/ player.move_cooldown > 0 IN
        /\ blocked => player' = player /\ screen_shake' = screen_shake
        /\ (player' # player \/ screen_shake' # screen_shake) =>
               player.alive /\ ~player.moving /\ player.move_cooldown <= 0
C11_InputNoOp == [][C11_Step]_vars

\* a direction key held during the cooldown of a bump: no move started
C11_Witness ==
    /\ last.op = "handle_input" /\ last.arg.pressed /\ ~last.arg.started
    /\ player.alive /\ ~player.moving /\ player.move_cooldown > 0

\* C12: within one playing update the life-loss check comes after the
\* exit-reached check and is the last of the checks: when the update took the
\* last life, the game_over it set is not replaced by the exit check (only
\* the pause loop, which runs after the checks, can still change the state).
C12_LifeLossLast ==
    (last.died /\ lives <= 0) => state \in {"game_over", "pause"}

\* the session is the one setup_level builds for the current level from the
\* level files: the grid of the level's file, the player fresh on the spawn
\* tile, nothing collected
FreshSession ==
    /\ last.setup
    /\ tilemap.level_name = PyIndex(LEVELS, current_level_index)
    /\ player = PlayerInit(find_player_spawn(tilemap)[1], find_player_spawn(tilemap)[2])
    /\ stars_collected_count = 0
    /\ \A k \in 1..Len(collectibles) : ~collectibles[k].collected
    /\ \A k \in 1..Len(stars) : ~stars[k].collected
    /\ Len(collectibles) = Len(Scan(tilemap, "*"))
    /\ Len(stars) = Len(Scan(tilemap, "S"))
    /\ dots = Scan(tilemap, ".")
    /\ tilemap = TileMap(files, tilemap.level_name)
\* the save file holds the progress of the game
Saved ==
    /\ save_file.exists
    /\ save_file.data = [level_index |-> saved_level_index, coins |-> global_coins,
                         bought_items |-> bought_items, current_skin |-> current_skin,
                         level_stars |-> level_stars]

\* C13: an update of level_complete whose one action is an advance ends, on
\* a level i that is not the last, in playing on level i + 1 with a session
\* freshly set up for it and the progress saved (the saved level index is at
\* least i + 1); on the last level it ends as a return to the menu: state
\* menu, level index 0, lives MAX_LIVES.
C13_Step ==
    (state = "level_complete" /\ last'.acts = <<"advance">>) =>
        IF current_level_index < Len(LEVELS) - 1
        THEN /\ state' = "playing"
             /\ current_level_index' = current_level_index + 1
             /\ FreshSession'
             /\ saved_level_index' = MaxOf({saved_level_index, current_level_index + 1})
             /\ Saved'
        ELSE /\ state' = "menu"
             /\ current_level_index' = 0
             /\ lives' = MAX_LIVES
C13_Advance == [][C13_Step]_vars

\* an advance from the first level, saved for the first time
C13_Witness ==
    /\ last.acts = <<"advance">> /\ state = "playing"
    /\ current_level_index = 1 /\ saved_level_index = 1 /\ save_file.exists

\* the overlay states, and the last action of the update that has just run
Overlays == {"pause", "game_over", "level_complete"}
LastAct(l) == IF l.acts = <<>> THEN "none" ELSE l.acts[Len(l.acts)]

\* C14: an update of pause, game_over or level_complete whose last action
\* is the return to the menu ends with state menu, level index 0, lives
\* MAX_LIVES and the session rebuilt for level 0: the player fresh on the
\* spawn tile, stars_collected_count 0, nothing collected.
C14_Step ==
    (state \in Overlays /\ LastAct(last') = "menu") =>
        /\ state' = "menu"
        /\ current_level_index' = 0
        /\ lives' = MAX_LIVES
        /\ FreshSession'
C14_ReturnToMenu == [][C14_Step]_vars

\* a return to the menu from a level after the first
C14_Witness ==
    /\ last.acts = <<"menu">> /\ state = "menu"
    /\ current_level_index = 0 /\ saved_level_index >= 1

\* C15: an update of pause or game_over whose one action is the restart of
\* the level ends in playing on the same level index with the session set up
\* afresh (player fresh on the spawn tile, nothing collected,
\* stars_collected_count 0); from game_over lives become MAX_LIVES, from
\* pause lives are left as they were.
C15_Step ==
    (state \in {"pause", "game_over"} /\ last'.acts = <<"restart">>) =>
        /\ state' = "playing"
        /\ current_level_index' = current_level_index
        /\ FreshSession'
        /\ state = "game_over" => lives' = MAX_LIVES
        /\ state = "pause" => lives' = lives
C15_RestartLevel == [][C15_Step]_vars

\* a level with a trap restarted, all lives back
C15_Witness ==
    /\ last.acts = <<"restart">> /\ state = "playing"
    /\ traps # <<>> /\ lives = MAX_LIVES /\ player.alive

\* C16: in pause, game_over or level_complete, an update whose events hold
\* no resume, restart, menu or advance action leaves the level session as it
\* was (player, entities and their flags, stars_collected_count, lives, coins,
\* camera scroll); a resume from pause returns to playing with that session
Session ==
    <<player, collectibles, stars, dots, traps, exit_portal, tilemap,
      stars_collected_count, lives, global_coins, scroll>>
C16_Step ==
    /\ (state \in Overlays /\ last'.op = "frame" /\ last'.acts = <<>>) =>
           UNCHANGED Session
    /\ (state = "pause" /\ last'.op = "frame" /\ last'.acts = <<"resume">>) =>
           state' = "playing" /\ UNCHANGED Session
C16_Frozen == [][C16_Step]_vars
\* a slide was paused half way, and the game is playing again with the
\* player still half way
C16_Witness ==
    /\ state = "playing" /\ last.acts = <<"resume">>
    /\ player.moving /\ ~Aligned(player)

\* C17: Game.draw changes nothing that a later update reads
C17_DrawPure ==
    [][last'.op = "draw" =>
         UNCHANGED <<state, lives, global_coins, player, collectibles, stars,
                     dots, traps, exit_portal, stars_collected_count, scroll,
                     pause_btn_rect>>]_vars

\* C18: on an axis where the level is not larger than the view, the scroll
\* is (level - view) // 2 after setup_level and after every playing update
level_w == tilemap.width * TILE_SIZE
level_h == tilemap.height * TILE_SIZE
C18_SmallCentred ==
    /\ level_w <= virt_w => scroll[1] = SX((level_w - virt_w) \div 2)
    /\ level_h <= virt_h => scroll[2] = SX((level_h - virt_h) \div 2)

\* C19: on an axis where the level is larger than the view, the scroll stays
\* in [0, level - view], plus the UI inset on the vertical axis, after
\* setup_level and after every playing update
C19_Clamped ==
    /\ level_w > virt_w => 0 <= scroll[1] /\ scroll[1] <= SX(level_w - virt_w)
    /\ level_h > virt_h =>
          0 <= scroll[2] /\ scroll[2] <= SX(level_h - virt_h) + ui_offset
\* a playing update left the scroll at the upper end of its range, with the
\* player-centred target beyond it
C19_Witness ==
    /\ state = "playing" /\ ~last.setup
    /\ level_w > virt_w
    /\ scroll[1] = SX(level_w - virt_w)
    /\ SX(camera_target(player)[1]) > scroll[1]

\* C20 (as the code has it): in a playing update a coin not yet collected is
\* collected exactly when its tile is the player's rounded tile position, and
\* a dot is collected exactly when its rect, dot_size wide in the middle of
\* its tile, overlaps the player's rect.  The player is where the update left
\* it, but for an update that respawns it after the checks.
PlayingUpdate ==
    /\ state = "playing" /\ last'.op = "frame"
    /\ last'.died => lives' <= 0
CoinsByTile ==
    \A k \in 1..Len(collectibles) :
        collectibles'[k].collected <=>
            \/ collectibles[k].collected
            \/ <<collectibles[k].tile_x, collectibles[k].tile_y>> = get_tile_pos(player')
C20_Step ==
    PlayingUpdate =>
        /\ CoinsByTile
        /\ dots' = SelectSeq(dots,
                      LAMBDA d : ~colliderect(dot_rect(d), player_rect(player')))
C20_Pickups == [][C20_Step]_vars
\* a dot is gone whose rect the player overlaps from the tile before it
C20_Witness ==
    /\ last.op = "frame" /\ ~last.setup
    /\ \E k \in 1..Len(Scan(tilemap, ".")) :
          LET d == Scan(tilemap, ".")[k] IN
          /\ \A j \in 1..Len(dots) : dots[j] # d
          /\ colliderect(dot_rect(d), player_rect(player))
          /\ d # get_tile_pos(player)
\* C20 as stated: coins and dots are both collected by tile equality
C20_Original ==
    [][PlayingUpdate =>
          /\ CoinsByTile
          /\ dots' = SelectSeq(dots, LAMBDA d : d # get_tile_pos(player'))]_vars

\* the tiles the player can rest on: the spawn, and the end of every slide
\* (Player.start_move) from a tile it can rest on
Dirs == {<<-1, 0>>, <<1, 0>>, <<0, -1>>, <<0, 1>>}
RECURSIVE RestTiles(_, _)
RestTiles(tm, S) ==
    LET N == S \cup {ray_cast(tm, c[1], c[2], d[1], d[2]) : c \in S, d \in Dirs}
    IN IF N = S THEN S ELSE RestTiles(tm, N)
\* the tiles of the slides between them
SlideTiles(tm, spawn) ==
    UNION { LET t == ray_cast(tm, c[1], c[2], d[1], d[2])
                n == Abs(t[1] - c[1]) + Abs(t[2] - c[2])
            IN {<<c[1] + k * d[1], c[2] + k * d[2]>> : k \in 0..n}
            : c \in RestTiles(tm, {spawn}), d \in Dirs }
\* some slide from the spawn brings the player's rect over the exit's
Completable(tm, spawn, e) ==
    \E c \in SlideTiles(tm, spawn) :
        colliderect(exit_rect(e),
                    Rect(c[1] * TILE_SIZE, c[2] * TILE_SIZE, TILE_SIZE, TILE_SIZE))

\* C21: a level without an 'E' tile has its exit at tile (1,1) and can be
\* completed: some sequence of slides from the spawn brings the player over
\* the exit
C21_NoExitCompletable ==
    Scan(tilemap, "E") = <<>> =>
        /\ exit_portal = <<1, 1>>
        /\ Completable(tilemap, find_player_spawn(tilemap), exit_portal)

\* C22: after reset_to_start, from any player state, the player is on its
\* spawn tile with its target there, not moving, facing (0,0), alive and with
\* a death timer of 0
C22_ResetClears ==
    last.op = "reset_to_start" =>
        /\ AtSpawn(player)
        /\ <<player.target_x, player.target_y>> = <<player.x, player.y>>
        /\ ~player.moving
        /\ <<player.dir_x, player.dir_y>> = <<0, 0>>
        /\ player.alive
        /\ player.death_timer = 0

\* the slide from cell s in direction d and the slide back from its end
FreeCells(tm) ==
    {c \in (0..(tm.width - 1)) \X (0..(tm.height - 1)) : ~is_solid(tm, c[1], c[2])}
Dist(a, b) == Abs(a[1] - b[1]) + Abs(a[2] - b[2])
SlideEnd(s, d) == ray_cast(tilemap, s[1], s[2], d[1], d[2])
SlideBack(s, d) == ray_cast(tilemap, SlideEnd(s, d)[1], SlideEnd(s, d)[2], -d[1], -d[2])
NoWallBack(s, d) ==
    \A k \in 0..Dist(SlideEnd(s, d), SlideBack(s, d)) :
        ~is_solid(tilemap, SlideEnd(s, d)[1] - k * d[1], SlideEnd(s, d)[2] - k * d[2])

\* C23 (as the code has it): with t the slide from a free cell s in direction
\* d and u the slide from t in direction -d, u is at least as far from t as s
\* is (the way back leads over s, and on past it while the cells are free),
\* u is s exactly when the cell behind s is solid, and no cell between t and
\* u is solid; on every grid once it is loaded and whenever a slide starts
C23_ReturnSlide ==
    (last.setup \/ Started) =>
    \A s \in FreeCells(tilemap), d \in Dirs :
        /\ Dist(SlideEnd(s, d), SlideBack(s, d)) >= Dist(SlideEnd(s, d), s)
        /\ SlideBack(s, d) = s <=> is_solid(tilemap, s[1] - d[1], s[2] - d[2])
        /\ NoWallBack(s, d)
\* handle_input has started the slide back from the end t of a slide, and its
\* target lies beyond a free cell s from which the slide in the other
\* direction ends at t
C23_Witness ==
    /\ Started /\ player.moving
    /\ \E s \in FreeCells(tilemap) :
          LET d == <<-player.dir_x, -player.dir_y>> IN
          /\ SlideEnd(s, d) = TileOf(player)
          /\ SlideBack(s, d) = TargetTile(player)
          /\ Dist(TileOf(player), TargetTile(player)) > Dist(TileOf(player), s)
\* C23 as stated: the slide back does not go beyond s
C23_Original ==
    (last.setup \/ Started) =>
    \A s \in FreeCells(tilemap), d \in Dirs :
        /\ Dist(SlideEnd(s, d), SlideBack(s, d)) <= Dist(SlideEnd(s, d), s)
        /\ NoWallBack(s, d)

SpawnCells(tm) ==
    {c \in (0..(tm.width - 1)) \X (0..(tm.height - 1)) :
        tm.level_data[c[2] + 1][c[1] + 1] = "P"}
RowMajorBefore(a, b) == a[2] < b[2] \/ (a[2] = b[2] /\ a[1] < b[1])

\* C25: find_player_spawn returns the first 'P' cell in row-major order, and
\* (1,1) when the grid has no 'P', whatever the grid: empty, smaller than
\* 2 x 2, or with a wall on (1,1); setup_level puts the player there
C25_Spawn ==
    LET sp == find_player_spawn(tilemap) IN
    /\ IF SpawnCells(tilemap) = {} THEN sp = <<1, 1>>
       ELSE /\ sp \in SpawnCells(tilemap)
            /\ \A c \in SpawnCells(tilemap) : ~RowMajorBefore(c, sp)
    /\ last.setup =>
          /\ error = "none"
          /\ <<player.spawn_tile_x, player.spawn_tile_y>> = sp
          /\ AtSpawn(player)
\* a grid without 'P' and with a wall on (1,1) was set up
C25_Witness ==
    /\ last.setup
    /\ SpawnCells(tilemap) = {}
    /\ tilemap.width >= 2 /\ tilemap.height >= 2
    /\ tilemap.level_data[2][2] = "#"
    /\ <<player.spawn_tile_x, player.spawn_tile_y>> = <<1, 1>>

\* C26: a handle_input call that reaches start_move towards a solid adjacent
\* cell (a bump) leaves position and target as they were and moving false,
\* sets the move cooldown to 0.2 s and raises the screen shake to at least 1;
\* while the cooldown is positive handle_input starts nothing, and only
\* Player.update lowers the cooldown of a player.
C26_Step ==
    /\ (/\ last'.op = "handle_input" /\ last'.arg.started
        /\ is_solid(tilemap, TileOf(player)[1] + player'.dir_x,
                             TileOf(player)[2] + player'.dir_y)) =>
          /\ <<player'.x, player'.y>> = <<player.x, player.y>>
          /\ <<player'.target_x, player'.target_y>> = <<player.target_x, player.target_y>>
          /\ ~player'.moving
          /\ player'.move_cooldown = BUMP_COOLDOWN
          /\ screen_shake' >= 1 * MS /\ screen_shake' >= screen_shake
    /\ (last'.op = "handle_input" /\ player.move_cooldown > 0) =>
          player' = player /\ screen_shake' = screen_shake
    /\ (last'.op # "Player" /\ player'.move_cooldown < player.move_cooldown) =>
          last'.op = "update"
C26_Bump == [][C26_Step]_vars
\* after a bump: at rest with the whole cooldown left, the shake raised
C26_Witness ==
    /\ last.op = "handle_input" /\ last.arg.started
    /\ ~player.moving /\ player.alive
    /\ player.move_cooldown = BUMP_COOLDOWN
    /\ screen_shake >= 1 * MS
    /\ <<player.target_x, player.target_y>> = <<player.x, player.y>>

\* q lies on the axis-aligned segment from a to b
Between(a, q, b) ==
    /\ (a[1] <= q[1] /\ q[1] <= b[1]) \/ (b[1] <= q[1] /\ q[1] <= a[1])
    /\ (a[2] <= q[2] /\ q[2] <= b[2]) \/ (b[2] <= q[2] /\ q[2] <= a[2])
Pos(p) == <<p.x, p.y>>
Target(p) == <<p.target_x, p.target_y>>
Remaining(p) == Abs(p.target_x - p.x) + Abs(p.target_y - p.y)

\* C27: a playing update of a sliding player keeps the target and leaves the
\* position on the segment from the old position to the target (so, from the
\* slide's start on, between start and target, never past the target); for
\* the frame's dt, when the remaining distance is at most speed * dt the
\* position becomes exactly the target and moving false, otherwise the player
\* advances by speed * dt and keeps moving.
C27_Step ==
    (/\ state = "playing" /\ player.alive /\ player.moving
     /\ last'.op = "frame" /\ ~last'.setup /\ ~last'.died) =>
        /\ player.x = player.target_x \/ player.y = player.target_y
        /\ Target(player') = Target(player)
        /\ Between(Pos(player), Pos(player'), Target(player))
        /\ \E dt \in CameraDTs :
              IF Remaining(player) <= PLAYER_SPEED * dt
              THEN Pos(player') = Target(player) /\ ~player'.moving
              ELSE /\ Remaining(player') = Remaining(player) - PLAYER_SPEED * dt
                   /\ player'.moving
C27_NeverPast == [][C27_Step]_vars
\* mid-slide after an update: off the tile grid, strictly between the spawn
\* and the target
C27_Witness ==
    /\ state = "playing" /\ player.alive /\ player.moving
    /\ ~Aligned(player)
    /\ Pos(player) # Target(player)
    /\ ~AtSpawn(player)
    /\ Between(<<PX(player.spawn_tile_x * TILE_SIZE), PX(player.spawn_tile_y * TILE_SIZE)>>,
               Pos(player), Target(player))

\* the direction of the first held key in the order left, right, up, down
FirstHeld(keys) ==
    IF "K_LEFT" \in keys THEN <<-1, 0>>
    ELSE IF "K_RIGHT" \in keys THEN <<1, 0>>
    ELSE IF "K_UP" \in keys THEN <<0, -1>>
    ELSE IF "K_DOWN" \in keys THEN <<0, 1>>
    ELSE <<0, 0>>
Facing(p) == <<p.dir_x, p.dir_y>>

\* C28: whatever direction keys are held, a handle_input call that reaches
\* start_move passes it the direction of the first held key in the order
\* left, right, up, down, a vector with exactly one component of magnitude 1,
\* which becomes the facing vector; a call that does not reach start_move
\* leaves the player as it was; the facing vector is cardinal or zero.
C28_Step ==
    /\ last'.op = "handle_input" =>
          IF last'.arg.started
          THEN /\ Facing(player') = FirstHeld(last'.arg.keys)
               /\ Facing(player') \in Dirs
               /\ player'.moving \/ player'.move_cooldown = BUMP_COOLDOWN
          ELSE player' = player
    /\ Facing(player') \in Dirs \cup {<<0, 0>>}
C28_OneDirection == [][C28_Step]_vars
\* right, up and down held together: the player faces right
C28_Witness ==
    /\ last.op = "handle_input" /\ last.arg.started
    /\ last.arg.keys = {"K_RIGHT", "K_UP", "K_DOWN"}
    /\ Facing(player) = <<1, 0>>

\* C29: pause is entered only from playing: an update in which the exit was
\* reached, or in which the last life was lost, does not end in pause,
\* whatever its batch of events holds.
C29_PauseFromPlaying ==
    (last.exit_hit \/ (last.died /\ lives <= 0)) => state # "pause"

\* C30: one update in level_complete triggers at most one action (advance
\* or back to the menu), the events after the one that changed the state
\* being left unhandled; so it advances the level index by at most one,
\* whatever the batch holds.
C30_Step ==
    state = "level_complete" =>
        /\ Len(last'.acts) <= 1
        /\ current_level_index' <= current_level_index + 1
C30_OneActionPerUpdate == [][C30_Step]_vars

\* the items of xs collected by the step
Newly(xs, ys) == {k \in 1..Len(xs) : ~xs[k].collected /\ ys[k].collected}
Kept(xs, ys) ==
    /\ Len(ys) = Len(xs)
    /\ \A k \in 1..Len(xs) :
          /\ <<ys[k].tile_x, ys[k].tile_y>> = <<xs[k].tile_x, xs[k].tile_y>>
          /\ xs[k].collected => ys[k].collected

\* C31: a step that is not a setup_level keeps every collected coin and
\* star collected and brings no dot back, whether it is an update, a death or
\* a respawn; a playing update adds to the coins exactly the number of coins
\* it collected, and any step adds to stars_collected_count exactly the
\* number of stars it collected, so each counts once in a session.
C31_Step ==
    ~last'.setup =>
        /\ Kept(collectibles, collectibles')
        /\ Kept(stars, stars')
        /\ Len(dots') <= Len(dots)
        /\ \A j \in 1..Len(dots') : \E k \in 1..Len(dots) : dots[k] = dots'[j]
        /\ stars_collected_count' =
              stars_collected_count + Cardinality(Newly(stars, stars'))
        /\ state = "playing" =>
              global_coins' = global_coins + Cardinality(Newly(collectibles, collectibles'))
C31_NeverRearmed == [][C31_Step]_vars
\* after a respawn the player went again over the coin's tile and onto the
\* star: each is still collected and has counted once
C31_Witness ==
    /\ last.trap_hit /\ ~last.star_hit /\ lives = 0
    /\ stars_collected_count = 1 /\ global_coins = 1
    /\ \A k \in 1..Len(stars) : stars[k].collected
    /\ \A k \in 1..Len(collectibles) : collectibles[k].collected
    /\ Len(collectibles) = 1 /\ Len(stars) = 1

\* C32: the trap takes precedence over the star: an update in which a trap
\* is hit collects no star, so stars_collected_count does not increase in it.
C32_TrapBeforeStar == last.trap_hit => ~last.star_hit

\* C33: on the 0 x 0 grid of a missing level file the play does not fail,
\* the player stays where setup_level put it (every move is a bump) and the
\* play does not end: the state is never level_complete or game_over there.
C33_MissingUnplayable ==
    (tilemap.width = 0 /\ tilemap.height = 0) =>
        /\ state \in {"playing", "pause"} => error = "none"
        /\ ~player.moving /\ AtSpawn(player)
        /\ state \notin {"level_complete", "game_over"}

\* the cells a ray cast may start from: the grid and the ring around it
StartCells(tm) == Ring(tm.width) \X Ring(tm.height)
LongestSide(tm) == IF tm.width > tm.height THEN tm.width ELSE tm.height

\* C34: on every grid, from every start cell (in the grid or around it,
\* solid or not) and in every cardinal direction the ray cast of start_move
\* ends, after n steps along the ray with n at most max(width, height): the
\* n cells it went over are not solid and the next one is solid.
C34_RayCastEnds ==
    (last.setup \/ Started) =>
        \A s \in StartCells(tilemap), d \in Dirs :
            LET t == ray_cast(tilemap, s[1], s[2], d[1], d[2])
                n == Dist(s, t)
            IN /\ t = <<s[1] + n * d[1], s[2] + n * d[2]>>
               /\ n <= LongestSide(tilemap)
               /\ \A k \in 1..n : ~is_solid(tilemap, s[1] + k * d[1], s[2] + k * d[2])
               /\ is_solid(tilemap, t[1] + d[1], t[2] + d[2])
\* start_move has cast a ray from a cell outside the grid, which ended there
C34_Witness ==
    /\ Started /\ ~player.moving
    /\ Outside(tilemap, TileOf(player)[1], TileOf(player)[2])
    /\ player.move_cooldown = BUMP_COOLDOWN

\* C35: the lives stay between 0 and MAX_LIVES, and a play goes on only
\* with a life left: lives >= 1 whenever the state is playing.
C35_LivesInRange ==
    /\ 0 <= lives /\ lives <= MAX_LIVES
    /\ state = "playing" => lives >= 1

\* C36: with the saved level index in [0, len(LEVELS)), no use of the menu
\* selection or of the level index is out of range (no IndexError), and
\* current_level_index stays in [0, len(LEVELS)), whatever the batches hold.
C36_IndicesInRange ==
    saved_level_index \in 0..(Len(LEVELS) - 1) =>
        /\ error = "none"
        /\ current_level_index \in 0..(Len(LEVELS) - 1)

\* the grid cells that the player's bounding box (Player.rect) overlaps
BoxCells(p) ==
    LET r == player_rect(p) IN
    ((r.x \div TILE_SIZE)..((r.x + r.w - 1) \div TILE_SIZE))
        \X ((r.y \div TILE_SIZE)..((r.y + r.h - 1) \div TILE_SIZE))

\* C37: when the spawn cell is in the grid and not a wall, every cell that
\* the player's bounding box overlaps is in the grid and not a wall, and the
\* target of a slide is a cell of the grid that is not a wall, in the row or
\* the column of the player.
C37_InFreeCells ==
    ~is_solid(tilemap, player.spawn_tile_x, player.spawn_tile_y) =>
        /\ \A c \in BoxCells(player) : ~is_solid(tilemap, c[1], c[2])
        /\ player.moving =>
              /\ player.target_x % PX(TILE_SIZE) = 0
              /\ player.target_y % PX(TILE_SIZE) = 0
              /\ ~is_solid(tilemap, TargetTile(player)[1], TargetTile(player)[2])
              /\ player.x = player.target_x \/ player.y = player.target_y
\* mid-slide, the box over two cells
C37_Witness ==
    /\ state = "playing" /\ player.alive /\ player.moving
    /\ Cardinality(BoxCells(player)) = 2
    /\ ~is_solid(tilemap, player.spawn_tile_x, player.spawn_tile_y)

\* C38: every slide ends: with update called again and again, a sliding
\* player comes to rest exactly on its target, or is dead.
C38_SlideEnds ==
    player.moving ~> ((~player.moving /\ Pos(player) = Target(player)) \/ ~player.alive)
\* at rest on the target after the last update of a slide of several updates
C38_Witness ==
    /\ last.op = "update" /\ last.arg \in StepDTs
    /\ player.alive /\ ~player.moving /\ Pos(player) = Target(player)
    /\ ~AtSpawn(player)

\* the tiles from the tile of p to the tile of q, both in one row or column
TilesOver(p, q) ==
    LET a == get_tile_pos(p)
        b == get_tile_pos(q)
    IN {c \in (MinOf({a[1], b[1]})..MaxOf({a[1], b[1]}))
               \X (MinOf({a[2], b[2]})..MaxOf({a[2], b[2]})) : TRUE}

\* the step of every frame is at most one tile
StepWithinTile == \A dt \in FineDTs : PLAYER_SPEED * dt <= PX(TILE_SIZE)

\* C39: with frames whose step is at most one tile, a playing update in
\* which an alive player is on, comes onto or goes over a tile that holds a
\* trap hits the trap in that update, and the player is not alive after it:
\* no update ends with the player alive on or past a trap tile.
C39_Step ==
    (/\ state = "playing" /\ player.alive
     /\ last'.op = "frame" /\ ~last'.setup
     /\ \E k \in 1..Len(traps) : traps[k] \in TilesOver(player, player')) =>
        last'.trap_hit /\ ~player'.alive
C39_TrapKills == [][StepWithinTile => C39_Step]_vars
\* killed by the trap in the update that brought the player onto its tile
C39_Witness ==
    /\ StepWithinTile
    /\ last.op = "frame" /\ last.trap_hit /\ ~player.alive
    /\ \E k \in 1..Len(traps) : traps[k] = get_tile_pos(player)
    /\ ~Aligned(player)

\* the step called goto_next_level
Advanced(l) == \E k \in 1..Len(l.acts) : l.acts[k] = "advance"

\* C40: the saved level index never decreases and never exceeds
\* len(LEVELS) - 1; it changes only in a level_complete update that advances,
\* and a single advance raises it to the new level index only when that is
\* greater; menu, restart, game over and level selection leave it unchanged.
C40_Step ==
    /\ saved_level_index' >= saved_level_index
    /\ saved_level_index' <= Len(LEVELS) - 1
    /\ saved_level_index' # saved_level_index =>
          state = "level_complete" /\ Advanced(last')
    /\ (last'.acts = <<"advance">> /\ current_level_index < Len(LEVELS) - 1) =>
          /\ current_level_index' = current_level_index + 1
          /\ saved_level_index' =
                IF current_level_index' > saved_level_index
                THEN current_level_index' ELSE saved_level_index
    /\ (last'.acts # <<>> /\ ~Advanced(last')) => saved_level_index' = saved_level_index
====
